---- MODULE Spec2Model ----
(***************************************************************************)
(* Document-ingestion pipeline of legal-rag-system: the ledger             *)
(* (document_queue), the semantic store (legal-rag-db), and the serverless *)
(* handlers that read and write them:                                      *)
(*   /api/check-new-docs  (analysis pipeline)   src/api/manage-rag-db.js   *)
(*   /api/manage-rag-db   (get/update/delete)   src/api/manage-rag-db.js   *)
(*   /api/confirm-review  (confirm)             src/unnamed/part_001       *)
(* One handler invocation runs at a time; every await of an external       *)
(* service is one step, and each external call may succeed or fail.        *)
(* The retry wrapper callGeminiWithRetry is also modelled on its own       *)
(* (SpecRetry), for any retry budget and initial delay.                    *)
(* The earlier batch variant of the pipeline (src/api/check-new-docs.js,   *)
(* up to three pending entries per invocation) is modelled on its own      *)
(* (SpecBatch).                                                            *)
(***************************************************************************)
EXTENDS Integers, Sequences, FiniteSets, TLC

VARIABLES
    ledger,     \* document_queue: id -> row
    store,      \* legal-rag-db index: id -> vector metadata
    nops,       \* number of handler invocations started so far
    inv,        \* the handler invocation in progress, or the last one finished
    lastEdit,   \* history: id -> payload of the last successful update, while unwritten since
    ex,         \* the run of callGeminiWithRetry the invocation is waiting for
    parked      \* a second invocation in progress, waiting at an await

vars == <<ledger, store, nops, inv, lastEdit, ex, parked>>

---------------------------------------------------------------------------
(* Bounds of the model *)

NumEntries == 2
MaxOps == 2
MaxRetriesArg == 3
MaxDelayArg == 3
MaxBatchOps == 1

Ids == 1..NumEntries
MissingId == NumEntries + 1
ReqIds == Ids \cup {MissingId}

\* synthetic vector ids of manual training: the id made from the time n
TrainId(n) == NumEntries + 1 + n
TrainIds == {TrainId(n) : n \in 1..MaxOps}
VecIds == ReqIds \cup TrainIds

---------------------------------------------------------------------------
(* Values *)

Feedbacks == {"fbA", "fbB"}
Payloads == [docType : {"typeA"}, fullContent : {"edited"}, userFeedback : Feedbacks]

NullResult == [null |-> TRUE]
NullText == "null"
NoRow == [absent |-> TRUE]
NoVec == [novec |-> TRUE]
NoPayload == [nopayload |-> TRUE]
NoRules == [norules |-> TRUE]
NoData == [nodata |-> TRUE]

Filename(id) == <<"file", id>>

\* a row as inserted by the upload: updated_at is the time of insertion
Row(st, res, fb, ix) ==
    [status |-> st, ai_result |-> res, user_feedback |-> fb, pinecone_indexed |-> ix,
     updated_at |-> 0]

HasRow(id) == ledger[id] # NoRow
HasVec(id) == store[id] # NoVec

\* Date.now() / new Date().toISOString(): the clock has advanced whenever a
\* new invocation begins, so a reading is later than every reading of an
\* earlier invocation and than the uploads; invocations in flight at the
\* same time may read the same time
Now == nops

\* obj.field || dflt, for a field the object may lack
FieldOr(obj, f, dflt) == IF f \in DOMAIN obj THEN obj[f] ELSE dflt

\* s.substring(0, n): every text of the model is shorter than the cuts used
Substring(s, n) == IF n > 0 THEN s ELSE ""

---------------------------------------------------------------------------
(* Rate-limited call executor: callGeminiWithRetry(fn, retries, delayMs) *)

DefaultRetries == 3
DefaultDelayMs == 10000

\* failures of the generation/embedding service, by what error.message holds
Errors == {"429", "other"}

\* faulty variant: every failure is taken for throttling
IsThrottleAny(err) == TRUE

IsThrottle(err) == err = "429"

\* faulty variant: one retry too many
RetryAgainOffByOne(err, retries) == IsThrottle(err) /\ retries >= 0

RetryAgain(err, retries) == IsThrottle(err) /\ retries > 0

\* faulty variant: the delay is not doubled
NextDelayConstant(delayMs) == delayMs

NextDelay(delayMs) == delayMs * 2

ExIdle ==
    [pc |-> "idle", maxRetries |-> 0, initialDelay |-> 0, retries |-> 0, delayMs |-> 0,
     calls |-> 0, waits |-> <<>>, hist |-> <<>>, thrown |-> NullText]

\* entry of callGeminiWithRetry(fn, retries, delayMs)
ExStart(retries, delayMs) ==
    [pc |-> "call", maxRetries |-> retries, initialDelay |-> delayMs, retries |-> retries,
     delayMs |-> delayMs, calls |-> 0, waits |-> <<>>, hist |-> <<>>, thrown |-> NullText]

\* try { return await fn() } catch (error) { if (429 && retries > 0) ... throw error }
ExAfterCall(e, outcome) ==
    LET called == [e EXCEPT !.calls = @ + 1, !.hist = Append(@, outcome)]
    IN  IF outcome = "ok" THEN [called EXCEPT !.pc = "returned"]
        ELSE IF RetryAgain(outcome, e.retries) THEN [called EXCEPT !.pc = "wait"]
        ELSE [called EXCEPT !.pc = "thrown", !.thrown = outcome]

\* faulty variant: the retry is made with the same number of retries left
ExAfterWaitUndiminished(e) ==
    [e EXCEPT !.pc = "call", !.waits = Append(@, e.delayMs), !.delayMs = NextDelay(@)]

\* await delay(delayMs); return callGeminiWithRetry(fn, retries - 1, delayMs * 2)
ExAfterWait(e) ==
    [e EXCEPT !.pc = "call", !.waits = Append(@, e.delayMs),
              !.retries = @ - 1, !.delayMs = NextDelay(@)]

ExCall ==
    /\ ex.pc = "call"
    /\ \E outcome \in {"ok"} \cup Errors : ex' = ExAfterCall(ex, outcome)
    /\ UNCHANGED <<ledger, store, nops, inv, lastEdit>>
    /\ UNCHANGED parked

ExWait ==
    /\ ex.pc = "wait"
    /\ ex' = ExAfterWait(ex)
    /\ UNCHANGED <<ledger, store, nops, inv, lastEdit>>
    /\ UNCHANGED parked

---------------------------------------------------------------------------
(* Handler invocations *)

InvIdle ==
    [op |-> "none", pc |-> "idle", docId |-> 0, feedback |-> NullText,
     payload |-> NoPayload, doc |-> NoRow, docs |-> <<>>, k |-> 0,
     rules |-> NoRules, p1 |-> NoData, past |-> NullText, p3 |-> NoData,
     err |-> NullText, results |-> <<>>, log |-> <<>>, calls |-> {},
     code |-> 0, body |-> NullText]

Quiescent == inv.pc \in {"idle", "done"}

\* no second invocation
NoParked == [inv |-> InvIdle, ex |-> ExIdle]

\* a request arrives: req.body = {action/docId/userFeedback/payload}
Begin(op, pc, docId, feedback, payload) ==
    [InvIdle EXCEPT !.op = op, !.pc = pc, !.docId = docId,
                    !.feedback = feedback, !.payload = payload]

\* res.status(code).json(body)
Respond(i, code, body) == [i EXCEPT !.pc = "done", !.code = code, !.body = body]

Called(i, svc) == [i EXCEPT !.calls = @ \cup {svc}]

\* supabase .update(cols).eq('id', id): the named columns of the matching row
LedgerUpdated(id, cols) ==
    IF HasRow(id)
    THEN [ledger EXCEPT ![id] = [f \in DOMAIN ledger[id] |->
                                    IF f \in DOMAIN cols THEN cols[f] ELSE ledger[id][f]]]
    ELSE ledger

\* history for the round trip of edits: any write to id ends the window
Forget(id) == [lastEdit EXCEPT ![id] = NoPayload]

---------------------------------------------------------------------------
(* /api/manage-rag-db: get, update, delete *)

StartGet ==
    /\ Quiescent
    /\ nops < MaxOps
    /\ nops' = nops + 1
    /\ \E d \in ReqIds : inv' = Begin("get", "g_fetch", d, NullText, NoPayload)
    /\ UNCHANGED <<ledger, store, lastEdit, ex>>
    /\ UNCHANGED parked

\* faulty variant: with no vector the ledger's copy is served
GetFetchFallback ==
    /\ inv.pc = "g_fetch"
    /\ \/ inv' = Respond(Called(inv, "vec"), 500, "fetch failed")
       \/ inv' = IF HasVec(inv.docId)
                 THEN Respond(Called(inv, "vec"), 200, store[inv.docId])
                 ELSE IF HasRow(inv.docId)
                 THEN Respond(Called(Called(inv, "vec"), "ledger_read"), 200,
                              ledger[inv.docId].ai_result)
                 ELSE Respond(Called(inv, "vec"), 404, "no vector")
    /\ UNCHANGED <<ledger, store, nops, lastEdit, ex>>
    /\ UNCHANGED parked

\* index.fetch([docId]); records[docId] absent -> 404, else its metadata
GetFetch ==
    /\ inv.pc = "g_fetch"
    /\ \/ inv' = Respond(Called(inv, "vec"), 500, "fetch failed")
       \/ inv' = IF HasVec(inv.docId)
                 THEN Respond(Called(inv, "vec"), 200, store[inv.docId])
                 ELSE Respond(Called(inv, "vec"), 404, "no vector")
    /\ UNCHANGED <<ledger, store, nops, lastEdit, ex>>
    /\ UNCHANGED parked

StartUpdate ==
    /\ Quiescent
    /\ nops < MaxOps
    /\ nops' = nops + 1
    /\ \E d \in ReqIds, pl \in Payloads :
           inv' = Begin("update", "u_embed", d, NullText, pl)
    /\ UNCHANGED <<ledger, store, lastEdit, ex>>
    /\ UNCHANGED parked

\* faulty variant: the ledger row is written before the embedding is made
UpdateEmbedLedgerFirst ==
    /\ inv.pc = "u_embed"
    /\ ledger' = LedgerUpdated(inv.docId, [status |-> "completed"])
    /\ \/ inv' = [Called(inv, "embed") EXCEPT !.pc = "u_upsert"]
       \/ \E e \in Errors : inv' = Respond(Called(inv, "embed"), 500, e)
    /\ UNCHANGED <<store, nops, lastEdit, ex>>
    /\ UNCHANGED parked

\* embedModel.embedContent(textToEmbed)
UpdateEmbed ==
    /\ inv.pc = "u_embed"
    /\ \/ inv' = [Called(inv, "embed") EXCEPT !.pc = "u_upsert"]
       \/ \E e \in Errors : inv' = Respond(Called(inv, "embed"), 500, e)
    /\ UNCHANGED <<ledger, store, nops, lastEdit, ex>>
    /\ UNCHANGED parked

\* faulty variant: the edited content is not written to the metadata
UpdateMetadataNoContent(pl) ==
    [docType |-> pl.docType, userFeedback |-> pl.userFeedback, updatedAt |-> "now"]

\* metadata written by update: { docType, fullContent, userFeedback, updatedAt }
UpdateMetadata(pl) ==
    [docType |-> pl.docType, fullContent |-> pl.fullContent,
     userFeedback |-> pl.userFeedback, updatedAt |-> "now"]

\* index.upsert([{ id: docId, values, metadata }])
UpdateUpsert ==
    /\ inv.pc = "u_upsert"
    /\ \/ /\ store' = [store EXCEPT ![inv.docId] = UpdateMetadata(inv.payload)]
          /\ lastEdit' = Forget(inv.docId)
          /\ inv' = [Called(inv, "vec") EXCEPT !.pc = "u_ledger"]
       \/ /\ inv' = Respond(Called(inv, "vec"), 500, "upsert failed")
          /\ UNCHANGED <<store, lastEdit>>
    /\ UNCHANGED <<ledger, nops, ex>>
    /\ UNCHANGED parked

\* columns written by update: status, ai_result, updated_at
UpdateColumns(pl) ==
    [status |-> "completed",
     ai_result |-> [manual_update |-> TRUE, docType |-> pl.docType,
                    fullContent |-> pl.fullContent, userFeedback |-> pl.userFeedback],
     updated_at |-> Now]

\* supabase update ... if (dbError) throw dbError; else 200
UpdateLedger ==
    /\ inv.pc = "u_ledger"
    /\ \/ /\ ledger' = LedgerUpdated(inv.docId, UpdateColumns(inv.payload))
          /\ lastEdit' = [lastEdit EXCEPT ![inv.docId] = inv.payload]
          /\ inv' = Respond(Called(inv, "ledger_write"), 200, "updated")
       \/ /\ inv' = Respond(Called(inv, "ledger_write"), 500, "db error")
          /\ UNCHANGED <<ledger, lastEdit>>
    /\ UNCHANGED <<store, nops, ex>>
    /\ UNCHANGED parked

StartDelete ==
    /\ Quiescent
    /\ nops < MaxOps
    /\ nops' = nops + 1
    /\ \E d \in ReqIds : inv' = Begin("delete", "d_vector", d, NullText, NoPayload)
    /\ UNCHANGED <<ledger, store, lastEdit, ex>>
    /\ UNCHANGED parked

\* faulty variant: the ledger is changed while the vector is still in the index
DeleteVectorDeferred ==
    /\ inv.pc = "d_vector"
    /\ \/ /\ inv' = [Called(inv, "vec") EXCEPT !.pc = "d_ledger"]
          /\ UNCHANGED <<store, lastEdit>>
       \/ /\ inv' = Respond(Called(inv, "vec"), 500, "delete failed")
          /\ UNCHANGED <<store, lastEdit>>
    /\ UNCHANGED <<ledger, nops, ex>>
    /\ UNCHANGED parked

\* index.deleteOne(docId)
DeleteVector ==
    /\ inv.pc = "d_vector"
    /\ \/ /\ store' = [store EXCEPT ![inv.docId] = NoVec]
          /\ lastEdit' = Forget(inv.docId)
          /\ inv' = [Called(inv, "vec") EXCEPT !.pc = "d_ledger"]
       \/ /\ inv' = Respond(Called(inv, "vec"), 500, "delete failed")
          /\ UNCHANGED <<store, lastEdit>>
    /\ UNCHANGED <<ledger, nops, ex>>
    /\ UNCHANGED parked

\* faulty variant: the status is left as it was
DeleteColumnsNoStatus == [ai_result |-> [note |-> "deleted by user"]]

\* columns written by delete: status, ai_result
DeleteColumns ==
    [status |-> "deleted", ai_result |-> [note |-> "deleted by user"]]

\* supabase update ... if (dbError) throw dbError; else 200
DeleteLedger ==
    /\ inv.pc = "d_ledger"
    /\ \/ /\ ledger' = LedgerUpdated(inv.docId, DeleteColumns)
          /\ inv' = Respond(Called(inv, "ledger_write"), 200, "deleted")
       \/ /\ inv' = Respond(Called(inv, "ledger_write"), 500, "db error")
          /\ UNCHANGED ledger
    /\ UNCHANGED <<store, nops, lastEdit, ex>>
    /\ UNCHANGED parked

---------------------------------------------------------------------------
(* /api/confirm-review: confirm(docId, userFeedback) *)

StartConfirm ==
    /\ Quiescent
    /\ nops < MaxOps
    /\ nops' = nops + 1
    /\ \E d \in ReqIds, fb \in Feedbacks :
           inv' = Begin("confirm", "c_load", d, fb, NoPayload)
    /\ UNCHANGED <<ledger, store, lastEdit, ex>>
    /\ UNCHANGED parked

\* faulty variant: the result of the lookup is not looked at
ConfirmLoadUnchecked ==
    /\ inv.pc = "c_load"
    /\ inv' = [inv EXCEPT !.pc = "c_embed",
                          !.doc = IF HasRow(inv.docId) THEN ledger[inv.docId]
                                  ELSE Row("pending", NullResult, NullText, FALSE)]
    /\ UNCHANGED <<ledger, store, nops, lastEdit, ex>>
    /\ UNCHANGED parked

\* select('*').eq('id', docId).single(); if (error || !doc) throw
ConfirmLoad ==
    /\ inv.pc = "c_load"
    /\ \/ inv' = Respond(inv, 500, "not found")
       \/ inv' = IF HasRow(inv.docId)
                 THEN [inv EXCEPT !.pc = "c_embed", !.doc = ledger[inv.docId]]
                 ELSE Respond(inv, 500, "not found")
    /\ UNCHANGED <<ledger, store, nops, lastEdit, ex>>
    /\ UNCHANGED parked

\* embedModel.embedContent(textToEmbed)
ConfirmEmbed ==
    /\ inv.pc = "c_embed"
    /\ \/ inv' = [Called(inv, "embed") EXCEPT !.pc = "c_upsert"]
       \/ \E e \in Errors : inv' = Respond(Called(inv, "embed"), 500, e)
    /\ UNCHANGED <<ledger, store, nops, lastEdit, ex>>
    /\ UNCHANGED parked

\* metadata written by confirm: { filename, docType, uploadDate, userFeedback, fullContent }
ConfirmMetadata(id, doc, fb) ==
    LET aiResult == IF doc.ai_result = NullResult THEN [empty |-> TRUE] ELSE doc.ai_result
    IN  [filename |-> Filename(id),
         docType |-> "Unknown",
         uploadDate |-> "now",
         userFeedback |-> fb,
         fullContent |-> Substring(FieldOr(aiResult, "step3_rag_analysis", ""), 1000)]

\* index.upsert([{ id: doc.id, values, metadata }])
ConfirmUpsert ==
    /\ inv.pc = "c_upsert"
    /\ \/ /\ store' = [store EXCEPT ![inv.docId] =
                          ConfirmMetadata(inv.docId, inv.doc, inv.feedback)]
          /\ lastEdit' = Forget(inv.docId)
          /\ inv' = [Called(inv, "vec") EXCEPT !.pc = "c_ledger"]
       \/ /\ inv' = Respond(Called(inv, "vec"), 500, "upsert failed")
          /\ UNCHANGED <<store, lastEdit>>
    /\ UNCHANGED <<ledger, nops, ex>>
    /\ UNCHANGED parked

\* faulty variant: the confirmation also clears the stored analysis
ConfirmColumnsClearing(fb) ==
    [status |-> "completed", user_feedback |-> fb, pinecone_indexed |-> TRUE,
     ai_result |-> NullResult]

\* columns written by confirm: status, user_feedback, pinecone_indexed
ConfirmColumns(fb) ==
    [status |-> "completed", user_feedback |-> fb, pinecone_indexed |-> TRUE]

\* await supabase update (its error is not looked at); then 200
ConfirmLedger ==
    /\ inv.pc = "c_ledger"
    /\ \/ /\ ledger' = LedgerUpdated(inv.docId, ConfirmColumns(inv.feedback))
          /\ lastEdit' = Forget(inv.docId)
       \/ UNCHANGED <<ledger, lastEdit>>
    /\ inv' = Respond(Called(inv, "ledger_write"), 200, "saved")
    /\ UNCHANGED <<store, nops, ex>>
    /\ UNCHANGED parked

---------------------------------------------------------------------------
(* /api/check-new-docs: the analysis pipeline *)

NoDocId == 0

CreatedAt(id) == id

Doc(id) ==
    [id |-> id, filename |-> Filename(id), status |-> ledger[id].status,
     ai_result |-> ledger[id].ai_result]

\* faulty variant: the rows are ordered newest first
RECURSIVE NewestFirst(_)
NewestFirst(S) ==
    IF S = {} THEN <<>>
    ELSE LET first == CHOOSE i \in S : \A j \in S : CreatedAt(i) >= CreatedAt(j)
         IN  <<Doc(first)>> \o NewestFirst(S \ {first})

\* the rows of a status set, oldest first
RECURSIVE OldestFirst(_)
OldestFirst(S) ==
    IF S = {} THEN <<>>
    ELSE LET first == CHOOSE i \in S : \A j \in S : CreatedAt(i) <= CreatedAt(j)
         IN  <<Doc(first)>> \o OldestFirst(S \ {first})

Limit(seq, n) == SubSeq(seq, 1, IF Len(seq) < n THEN Len(seq) ELSE n)

WithStatus(statuses) == {i \in Ids : ledger[i].status \in statuses}

Statuses == {"pending", "processed", "error", "completed", "deleted"}

\* faulty variant: the automatic run does not filter on status
SelectionAnyStatus(docId) ==
    IF docId # NoDocId
    THEN IF HasRow(docId) THEN <<Doc(docId)>> ELSE <<>>
    ELSE Limit(OldestFirst(WithStatus(Statuses)), 1)

\* faulty variant: an explicit id is still filtered on status
SelectionFiltered(docId) ==
    IF docId # NoDocId
    THEN IF HasRow(docId) /\ ledger[docId].status \in {"pending", "error"}
         THEN <<Doc(docId)>> ELSE <<>>
    ELSE Limit(OldestFirst(WithStatus({"pending", "error"})), 1)

\* body.docId ? select.eq('id', docId) : select.in(status, [pending, error]).order.limit(1)
Selection(docId) ==
    IF docId # NoDocId
    THEN IF HasRow(docId) THEN <<Doc(docId)>> ELSE <<>>
    ELSE Limit(OldestFirst(WithStatus({"pending", "error"})), 1)

FetchOutcomes == {"ok", "not_ok", "throws", "bad_json"}
LoadFailed == [readingGuide |-> "Load Failed", logicGuideline |-> "Load Failed"]

\* fetchGithubRules(): both documents, or the sentinel for both
FetchGithubRules(reading, logic) ==
    IF reading = "ok" /\ logic = "ok"
    THEN [readingGuide |-> "reading_guide.json", logicGuideline |-> "guideline.json"]
    ELSE LoadFailed

NoContextMsg == "no context searched"
NoSimilarMsg == "no similar cases"
SearchFailedMsg == "search failed"

ParseOutcomes1 == {"ctx", "no_ctx", "unparsable"}
ParseOutcomes3 == {"parsed", "unparsable"}

\* answers after which the code following the parse raises: the text parses
\* to null (reading a field of phase1Data / phase2Data raises), or, in
\* phase 3, the answer has no text (response.text() raises again in the fallback)
ParseRaises1 == {"type error"}
ParseRaises3 == {"type error", "no text"}

\* JSON.parse of the phase-1 answer, or the placeholders
Phase1Data(o) ==
    IF o = "unparsable"
    THEN [extraction |-> "Error", baseline_analysis |-> "Error", search_context |-> ""]
    ELSE [extraction |-> "facts", baseline_analysis |-> "baseline",
          search_context |-> IF o = "ctx" THEN "summary" ELSE ""]

\* JSON.parse of the phase-3 answer, or the raw text with no issues
Phase3Data(o) ==
    IF o = "unparsable"
    THEN [final_rag_analysis |-> "raw text", issues |-> "[]", rag_reference_used |-> FALSE]
    ELSE [final_rag_analysis |-> "report", issues |-> "issues", rag_reference_used |-> TRUE]

FinalResult(p1, p3, past) ==
    [step1_extraction |-> p1.extraction,
     step2_baseline |-> p1.baseline_analysis,
     step3_rag_analysis |-> p3.final_rag_analysis,
     issues |-> p3.issues,
     past_cases_summary |-> Substring(past, 500)]

\* index.query({ vector, topK: 3 }): the matches, rendered
Matches == {i \in DOMAIN store : HasVec(i)}
RenderMatches == IF Matches = {} THEN NoSimilarMsg ELSE "cases"

CurDoc == inv.docs[inv.k]

Logged(i, what) == [i EXCEPT !.log = Append(@, [id |-> i.docs[i.k].id, ev |-> what])]

\* results.push(...); continue with the next doc
NextDoc(i) ==
    [i EXCEPT !.k = @ + 1, !.pc = "p_loop", !.p1 = NoData, !.p3 = NoData,
              !.past = NullText, !.err = NullText]

Pushed(i, rec) == [i EXCEPT !.results = Append(@, rec)]

StartPipeline ==
    /\ Quiescent
    /\ nops < MaxOps
    /\ nops' = nops + 1
    /\ \E d \in ReqIds \cup {NoDocId} :
           inv' = Begin("pipeline", "p_select", d, NullText, NoPayload)
    /\ UNCHANGED <<ledger, store, lastEdit, ex>>
    /\ UNCHANGED parked

SelectFailedMsg == "db query failed"

\* faulty variant: the rules are fetched before the selection is looked at
PipelineSelectRulesFirst ==
    /\ inv.pc = "p_select"
    /\ \/ inv' = Respond([inv EXCEPT !.err = SelectFailedMsg], 500, SelectFailedMsg)
       \/ inv' = IF Selection(inv.docId) = <<>>
                 THEN Respond(Called(inv, "rules"), 200, <<>>)
                 ELSE [inv EXCEPT !.pc = "p_rules", !.docs = Selection(inv.docId)]
    /\ UNCHANGED <<ledger, store, nops, lastEdit, ex>>
    /\ UNCHANGED parked

\* faulty variant: the error of the selection query is not looked at
PipelineSelectUnchecked ==
    /\ inv.pc = "p_select"
    /\ \/ inv' = [[inv EXCEPT !.err = SelectFailedMsg]
                     EXCEPT !.pc = "p_rules", !.docs = Selection(inv.docId)]
       \/ inv' = IF Selection(inv.docId) = <<>>
                 THEN Respond(inv, 200, <<>>)
                 ELSE [inv EXCEPT !.pc = "p_rules", !.docs = Selection(inv.docId)]
    /\ UNCHANGED <<ledger, store, nops, lastEdit, ex>>
    /\ UNCHANGED parked

\* const { data: pendingDocs, error: dbError } = await query; if (dbError) throw
PipelineSelect ==
    /\ inv.pc = "p_select"
    /\ \/ inv' = Respond([inv EXCEPT !.err = SelectFailedMsg], 500, SelectFailedMsg)
       \/ inv' = IF Selection(inv.docId) = <<>>
                 THEN Respond(inv, 200, <<>>)
                 ELSE [inv EXCEPT !.pc = "p_rules", !.docs = Selection(inv.docId)]
    /\ UNCHANGED <<ledger, store, nops, lastEdit, ex>>
    /\ UNCHANGED parked

\* faulty variant: a failed fetch is raised to the handler
PipelineRulesRaising ==
    /\ inv.pc = "p_rules"
    /\ \E reading \in FetchOutcomes, logic \in FetchOutcomes :
           inv' = IF reading = "ok" /\ logic = "ok"
                  THEN [Called(inv, "rules") EXCEPT !.rules = FetchGithubRules(reading, logic),
                                                   !.k = 1, !.pc = "p_loop"]
                  ELSE Respond(Called(inv, "rules"), 500, "GitHub fetch failed")
    /\ UNCHANGED <<ledger, store, nops, lastEdit, ex>>
    /\ UNCHANGED parked

\* const { readingGuide, logicGuideline } = await fetchGithubRules()
PipelineRules ==
    /\ inv.pc = "p_rules"
    /\ \E reading \in FetchOutcomes, logic \in FetchOutcomes :
           inv' = [Called(inv, "rules") EXCEPT !.rules = FetchGithubRules(reading, logic),
                                              !.k = 1, !.pc = "p_loop"]
    /\ UNCHANGED <<ledger, store, nops, lastEdit, ex>>
    /\ UNCHANGED parked

\* faulty variant: the cache branch is never taken
CachedNever(doc) == FALSE

\* if (doc.status === 'processed' && doc.ai_result): the stored result is served
Cached(doc) == doc.status = "processed" /\ doc.ai_result # NullResult

\* head of for (const doc of pendingDocs), and the response after the loop
PipelineLoop ==
    /\ inv.pc = "p_loop"
    /\ inv' = IF inv.k > Len(inv.docs)
              THEN Respond(inv, 200, inv.results)
              ELSE IF Cached(CurDoc)
              THEN NextDoc(Pushed(Logged(inv, "cache"),
                       [id |-> CurDoc.id, status |-> "processed", result |-> CurDoc.ai_result]))
              ELSE [inv EXCEPT !.pc = "p_download"]
    /\ UNCHANGED <<ledger, store, nops, lastEdit, ex>>
    /\ UNCHANGED parked

\* supabase.storage.from('legal-docs').download(doc.filename); on error: continue
PipelineDownload ==
    /\ inv.pc = "p_download"
    /\ \/ /\ inv' = [Logged(Called(inv, "obj"), "download") EXCEPT !.pc = "p_phase1"]
          /\ ex' = ExStart(DefaultRetries, DefaultDelayMs)
       \/ /\ inv' = NextDoc(Logged(Called(inv, "obj"), "download_failed"))
          /\ UNCHANGED ex
    /\ UNCHANGED <<ledger, store, nops, lastEdit>>
    /\ UNCHANGED parked

ExDone == ex.pc \in {"returned", "thrown"}

\* faulty variant: the retrieval runs whatever phase 1 produced
PipelinePhase1AlwaysSearching ==
    /\ inv.pc = "p_phase1"
    /\ ExDone
    /\ \/ /\ ex.pc = "thrown"
          /\ inv' = [Logged(Called(inv, "gen"), "phase1_failed")
                        EXCEPT !.pc = "p_catch", !.err = ex.thrown]
          /\ ex' = ExIdle
       \/ /\ ex.pc = "returned"
          /\ \E o \in ParseOutcomes1 :
                 inv' = [Logged(Called(inv, "gen"), "phase1")
                            EXCEPT !.p1 = Phase1Data(o), !.pc = "p_embed"]
          /\ ex' = ExStart(DefaultRetries, DefaultDelayMs)
       \/ /\ ex.pc = "returned"
          /\ \E r \in ParseRaises1 :
                 inv' = [Logged(Called(inv, "gen"), "phase1_failed")
                            EXCEPT !.pc = "p_catch", !.err = r]
          /\ ex' = ExIdle
    /\ UNCHANGED <<ledger, store, nops, lastEdit>>
    /\ UNCHANGED parked

\* result1 = await callGeminiWithRetry(generateContent); parse; search only with a context
PipelinePhase1 ==
    /\ inv.pc = "p_phase1"
    /\ ExDone
    /\ \/ /\ ex.pc = "thrown"
          /\ inv' = [Logged(Called(inv, "gen"), "phase1_failed")
                        EXCEPT !.pc = "p_catch", !.err = ex.thrown]
          /\ ex' = ExIdle
       \/ /\ ex.pc = "returned"
          /\ \E o \in ParseOutcomes1 :
                 inv' = IF Phase1Data(o).search_context # ""
                        THEN [Logged(Called(inv, "gen"), "phase1")
                                 EXCEPT !.p1 = Phase1Data(o), !.pc = "p_embed"]
                        ELSE [Logged(Called(inv, "gen"), "phase1")
                                 EXCEPT !.p1 = Phase1Data(o), !.past = NoContextMsg,
                                        !.pc = "p_phase3"]
          /\ ex' = ExStart(DefaultRetries, DefaultDelayMs)
       \/ /\ ex.pc = "returned"
          /\ \E r \in ParseRaises1 :
                 inv' = [Logged(Called(inv, "gen"), "phase1_failed")
                            EXCEPT !.pc = "p_catch", !.err = r]
          /\ ex' = ExIdle
    /\ UNCHANGED <<ledger, store, nops, lastEdit>>
    /\ UNCHANGED parked

\* searchPinecone: embedResult = await callGeminiWithRetry(embedContent); catch -> sentinel
PipelineEmbed ==
    /\ inv.pc = "p_embed"
    /\ ExDone
    /\ \/ /\ ex.pc = "thrown"
          /\ inv' = [Logged(Called(inv, "embed"), "search_failed")
                        EXCEPT !.past = SearchFailedMsg, !.pc = "p_phase3"]
          /\ ex' = ExStart(DefaultRetries, DefaultDelayMs)
       \/ /\ ex.pc = "returned"
          /\ inv' = [Called(inv, "embed") EXCEPT !.pc = "p_query"]
          /\ ex' = ExIdle
    /\ UNCHANGED <<ledger, store, nops, lastEdit>>
    /\ UNCHANGED parked

\* faulty variant: a failed query is raised to the entry's catch
PipelineQueryRaising ==
    /\ inv.pc = "p_query"
    /\ \/ /\ inv' = [Logged(Called(inv, "vec"), "search_failed")
                        EXCEPT !.pc = "p_catch", !.err = "query failed"]
          /\ UNCHANGED ex
       \/ /\ inv' = [Logged(Called(inv, "vec"), "search")
                        EXCEPT !.past = RenderMatches, !.pc = "p_phase3"]
          /\ ex' = ExStart(DefaultRetries, DefaultDelayMs)
    /\ UNCHANGED <<ledger, store, nops, lastEdit>>
    /\ UNCHANGED parked

\* searchPinecone: index.query(...); catch -> sentinel
PipelineQuery ==
    /\ inv.pc = "p_query"
    /\ \/ inv' = [Logged(Called(inv, "vec"), "search_failed")
                     EXCEPT !.past = SearchFailedMsg, !.pc = "p_phase3"]
       \/ inv' = [Logged(Called(inv, "vec"), "search")
                     EXCEPT !.past = RenderMatches, !.pc = "p_phase3"]
    /\ ex' = ExStart(DefaultRetries, DefaultDelayMs)
    /\ UNCHANGED <<ledger, store, nops, lastEdit>>
    /\ UNCHANGED parked

\* faulty variant: an unparsable phase-3 answer is raised to the entry's catch
PipelinePhase3Strict ==
    /\ inv.pc = "p_phase3"
    /\ ExDone
    /\ \/ /\ ex.pc = "thrown"
          /\ inv' = [Logged(Called(inv, "gen"), "phase3_failed")
                        EXCEPT !.pc = "p_catch", !.err = ex.thrown]
       \/ /\ ex.pc = "returned"
          /\ \E o \in ParseOutcomes3 :
                 inv' = IF o = "unparsable"
                        THEN [Logged(Called(inv, "gen"), "phase3_failed")
                                 EXCEPT !.p3 = Phase3Data(o), !.pc = "p_catch",
                                        !.err = "unparsable"]
                        ELSE [Logged(Called(inv, "gen"), "phase3")
                                 EXCEPT !.p3 = Phase3Data(o), !.pc = "p_commit"]
       \/ /\ ex.pc = "returned"
          /\ \E r \in ParseRaises3 :
                 inv' = [Logged(Called(inv, "gen"), "phase3_failed")
                            EXCEPT !.pc = "p_catch", !.err = r]
    /\ ex' = ExIdle
    /\ UNCHANGED <<ledger, store, nops, lastEdit>>
    /\ UNCHANGED parked

\* faulty variant: a failed phase 3 is swallowed and the entry is committed
PipelinePhase3Swallowing ==
    /\ inv.pc = "p_phase3"
    /\ ExDone
    /\ \/ /\ ex.pc = "thrown"
          /\ inv' = [Logged(Called(inv, "gen"), "phase3_failed")
                        EXCEPT !.p3 = Phase3Data("unparsable"), !.pc = "p_commit"]
       \/ /\ ex.pc = "returned"
          /\ \E o \in ParseOutcomes3 :
                 inv' = [Logged(Called(inv, "gen"), "phase3")
                            EXCEPT !.p3 = Phase3Data(o), !.pc = "p_commit"]
       \/ /\ ex.pc = "returned"
          /\ \E r \in ParseRaises3 :
                 inv' = [Logged(Called(inv, "gen"), "phase3_failed")
                            EXCEPT !.pc = "p_catch", !.err = r]
    /\ ex' = ExIdle
    /\ UNCHANGED <<ledger, store, nops, lastEdit>>
    /\ UNCHANGED parked

\* result2 = await callGeminiWithRetry(generateContent); parse or fall back
PipelinePhase3 ==
    /\ inv.pc = "p_phase3"
    /\ ExDone
    /\ \/ /\ ex.pc = "thrown"
          /\ inv' = [Logged(Called(inv, "gen"), "phase3_failed")
                        EXCEPT !.pc = "p_catch", !.err = ex.thrown]
       \/ /\ ex.pc = "returned"
          /\ \E o \in ParseOutcomes3 :
                 inv' = [Logged(Called(inv, "gen"), "phase3")
                            EXCEPT !.p3 = Phase3Data(o), !.pc = "p_commit"]
       \/ /\ ex.pc = "returned"
          /\ \E r \in ParseRaises3 :
                 inv' = [Logged(Called(inv, "gen"), "phase3_failed")
                            EXCEPT !.pc = "p_catch", !.err = r]
    /\ ex' = ExIdle
    /\ UNCHANGED <<ledger, store, nops, lastEdit>>
    /\ UNCHANGED parked

\* columns written by the commit: status, ai_result
CommitColumns(finalResult) == [status |-> "processed", ai_result |-> finalResult]

\* faulty variant: the commit also indexes the analysed entry
PipelineCommitIndexing ==
    /\ inv.pc = "p_commit"
    /\ LET finalResult == FinalResult(inv.p1, inv.p3, inv.past)
       IN  \/ /\ ledger' = LedgerUpdated(CurDoc.id, CommitColumns(finalResult))
              /\ store' = [store EXCEPT ![CurDoc.id] = ConfirmMetadata(CurDoc.id, ledger'[CurDoc.id], NullText)]
              /\ lastEdit' = Forget(CurDoc.id)
              /\ inv' = NextDoc(Pushed(Logged(Called(inv, "ledger_write"), "commit"),
                            [id |-> CurDoc.id, status |-> "processed", result |-> finalResult]))
           \/ /\ inv' = [Logged(Called(inv, "ledger_write"), "commit_failed")
                            EXCEPT !.pc = "p_catch", !.err = "db error"]
              /\ UNCHANGED <<ledger, lastEdit, store>>
    /\ UNCHANGED <<nops, ex>>
    /\ UNCHANGED parked

\* faulty variant: the commit only takes a row nobody has committed since it was selected
PipelineCommitClaimed ==
    /\ inv.pc = "p_commit"
    /\ LET finalResult == FinalResult(inv.p1, inv.p3, inv.past)
       IN  \/ /\ ledger' = IF ledger[CurDoc.id].status = CurDoc.status
                            THEN LedgerUpdated(CurDoc.id, CommitColumns(finalResult))
                            ELSE ledger
              /\ lastEdit' = Forget(CurDoc.id)
              /\ inv' = NextDoc(Pushed(Logged(Called(inv, "ledger_write"), "commit"),
                            [id |-> CurDoc.id, status |-> "processed", result |-> finalResult]))
           \/ /\ inv' = [Logged(Called(inv, "ledger_write"), "commit_failed")
                            EXCEPT !.pc = "p_catch", !.err = "db error"]
              /\ UNCHANGED <<ledger, lastEdit>>
    /\ UNCHANGED <<store, nops, ex>>
    /\ UNCHANGED parked

\* supabase update; if (updateError) throw; results.push(processed)
PipelineCommit ==
    /\ inv.pc = "p_commit"
    /\ LET finalResult == FinalResult(inv.p1, inv.p3, inv.past)
       IN  \/ /\ ledger' = LedgerUpdated(CurDoc.id, CommitColumns(finalResult))
              /\ lastEdit' = Forget(CurDoc.id)
              /\ inv' = NextDoc(Pushed(Logged(Called(inv, "ledger_write"), "commit"),
                            [id |-> CurDoc.id, status |-> "processed", result |-> finalResult]))
           \/ /\ inv' = [Logged(Called(inv, "ledger_write"), "commit_failed")
                            EXCEPT !.pc = "p_catch", !.err = "db error"]
              /\ UNCHANGED <<ledger, lastEdit>>
    /\ UNCHANGED <<store, nops, ex>>
    /\ UNCHANGED parked

\* columns written at the entry boundary: status, ai_result
ErrorColumns(msg) == [status |-> "error", ai_result |-> [error |-> msg]]

\* catch (docError): supabase update (its error is not looked at); results.push(error)
PipelineCatch ==
    /\ inv.pc = "p_catch"
    /\ \/ /\ ledger' = LedgerUpdated(CurDoc.id, ErrorColumns(inv.err))
          /\ lastEdit' = Forget(CurDoc.id)
       \/ UNCHANGED <<ledger, lastEdit>>
    /\ inv' = NextDoc(Pushed(Logged(Called(inv, "ledger_write"), "error"),
                  [id |-> CurDoc.id, status |-> "error", result |-> [error |-> inv.err]]))
    /\ UNCHANGED <<store, nops, ex>>
    /\ UNCHANGED parked

---------------------------------------------------------------------------
(* /api/rag-train, step save: a verified case is stored under a new id *)

\* contentForEmbedding: doc type, verified extraction and analysis, user instruction
TrainContent(pl) == <<pl.docType, "extraction", pl.fullContent, pl.userFeedback>>

\* metadata written by save: { fileName, docType, type, userFeedback, fullContent, createdAt }
TrainMetadata(pl) ==
    [fileName |-> "files", docType |-> pl.docType, type |-> "verified_instruction",
     userFeedback |-> pl.userFeedback, fullContent |-> TrainContent(pl), createdAt |-> "now"]

StartTrain ==
    /\ Quiescent
    /\ nops < MaxOps
    /\ nops' = nops + 1
    /\ \E pl \in Payloads :
           inv' = Begin("train", "t_embed", NoDocId, NullText, pl)
    /\ UNCHANGED <<ledger, store, lastEdit, ex>>
    /\ UNCHANGED parked

\* embedModel.embedContent(contentForEmbedding)
TrainEmbed ==
    /\ inv.pc = "t_embed"
    /\ \/ inv' = [Called(inv, "embed") EXCEPT !.pc = "t_upsert"]
       \/ \E e \in Errors : inv' = Respond(Called(inv, "embed"), 500, e)
    /\ UNCHANGED <<ledger, store, nops, lastEdit, ex>>
    /\ UNCHANGED parked

\* uniqueId = `manual-train-${Date.now()}`; index.upsert([{ id: uniqueId, values, metadata }])
TrainUpsert ==
    /\ inv.pc = "t_upsert"
    /\ \/ /\ store' = [store EXCEPT ![TrainId(Now)] = TrainMetadata(inv.payload)]
          /\ inv' = Respond(Called(inv, "vec"), 200, [upsertId |-> TrainId(Now)])
       \/ /\ inv' = Respond(Called(inv, "vec"), 500, "upsert failed")
          /\ UNCHANGED store
    /\ UNCHANGED <<ledger, nops, lastEdit, ex>>
    /\ UNCHANGED parked

---------------------------------------------------------------------------
(* Read-only views: action list of /api/manage-rag-db, modes list and      *)
(* count of /api/check-new-docs                                            *)

Reverse(seq) == [n \in DOMAIN seq |-> seq[Len(seq) + 1 - n]]

\* select('id, filename, status, created_at, ...'): the listed columns of each row
Listed(seq) ==
    [n \in DOMAIN seq |-> [id |-> seq[n].id, filename |-> seq[n].filename,
                           status |-> seq[n].status, created_at |-> CreatedAt(seq[n].id),
                           updated_at |-> ledger[seq[n].id].updated_at]]

\* .neq('status', 'deleted').order('created_at', { ascending: false })
ManageList == Listed(Reverse(OldestFirst(WithStatus(Statuses \ {"deleted"}))))

\* .in('status', ['pending', 'error', 'processed']).order('created_at', { ascending: true })
QueueList == Listed(OldestFirst(WithStatus({"pending", "error", "processed"})))

\* select('*', { count: 'exact', head: true }).in('status', [...]); count || 0
QueueCount == Cardinality(WithStatus({"pending", "error", "processed"}))

Views == {"list", "queue_list", "queue_count"}

StartView ==
    /\ Quiescent
    /\ nops < MaxOps
    /\ nops' = nops + 1
    /\ \E v \in Views : inv' = Begin(v, "v_query", NoDocId, NullText, NoPayload)
    /\ UNCHANGED <<ledger, store, lastEdit, ex>>
    /\ UNCHANGED parked

\* faulty variant: the count also puts the failed entries back in the queue
ViewQueryResetting ==
    /\ inv.pc = "v_query"
    /\ \/ /\ inv' = Respond(Called(inv, "ledger_read"), 500, "db error")
          /\ UNCHANGED ledger
       \/ /\ inv' = Respond(Called(inv, "ledger_read"), 200,
                        CASE inv.op = "list" -> ManageList
                          [] inv.op = "queue_list" -> QueueList
                          [] inv.op = "queue_count" -> QueueCount)
          /\ ledger' = [id \in DOMAIN ledger |->
                           IF HasRow(id) /\ ledger[id].status = "error"
                           THEN [ledger[id] EXCEPT !.status = "pending"] ELSE ledger[id]]
    /\ UNCHANGED <<store, nops, lastEdit, ex>>
    /\ UNCHANGED parked

\* const { data, error } = await supabase...; if (error) throw error; 200 with list or count
ViewQuery ==
    /\ inv.pc = "v_query"
    /\ \/ /\ inv' = Respond(Called(inv, "ledger_read"), 500, "db error")
          /\ UNCHANGED ledger
       \/ /\ inv' = Respond(Called(inv, "ledger_read"), 200,
                        CASE inv.op = "list" -> ManageList
                          [] inv.op = "queue_list" -> QueueList
                          [] inv.op = "queue_count" -> QueueCount)
          /\ UNCHANGED ledger
    /\ UNCHANGED <<store, nops, lastEdit, ex>>
    /\ UNCHANGED parked

---------------------------------------------------------------------------
(* /api/check-new-docs, batch variant (src/api/check-new-docs.js:1-260):   *)
(* up to BatchLimit pending entries per invocation, generation and         *)
(* embedding called directly, a failed download recorded as an error       *)

BatchLimit == 3

\* .eq('status', 'pending').order('created_at', { ascending: true }).limit(3)
BatchSelection == Limit(OldestFirst(WithStatus({"pending"})), BatchLimit)

FileNotFoundMsg == "File not found"

\* pastCases.substring(0, 500) + "..."
BatchFinalResult(p1, p3, past) ==
    [step1_extraction |-> p1.extraction,
     step2_baseline |-> p1.baseline_analysis,
     step3_rag_analysis |-> p3.final_rag_analysis,
     issues |-> p3.issues,
     past_cases_summary |-> <<Substring(past, 500), "...">>]

\* continue with the next doc of the batch
BatchNextDoc(i) == [NextDoc(i) EXCEPT !.pc = "b_loop"]

StartBatch ==
    /\ Quiescent
    /\ nops < MaxBatchOps
    /\ nops' = nops + 1
    /\ inv' = Begin("batch", "b_select", NoDocId, NullText, NoPayload)
    /\ UNCHANGED <<ledger, store, lastEdit, ex>>
    /\ UNCHANGED parked

\* const { data: pendingDocs, error: dbError } = await supabase...limit(3); if (dbError) throw
BatchSelect ==
    /\ inv.pc = "b_select"
    /\ \/ inv' = Respond([inv EXCEPT !.err = SelectFailedMsg], 500, SelectFailedMsg)
       \/ inv' = IF BatchSelection = <<>>
                 THEN Respond(inv, 200, <<>>)
                 ELSE [inv EXCEPT !.pc = "b_rules", !.docs = BatchSelection]
    /\ UNCHANGED <<ledger, store, nops, lastEdit, ex>>
    /\ UNCHANGED parked

\* const { readingGuide, logicGuideline } = await fetchGithubRules()
BatchRules ==
    /\ inv.pc = "b_rules"
    /\ \E reading \in FetchOutcomes, logic \in FetchOutcomes :
           inv' = [Called(inv, "rules") EXCEPT !.rules = FetchGithubRules(reading, logic),
                                              !.k = 1, !.pc = "b_loop"]
    /\ UNCHANGED <<ledger, store, nops, lastEdit, ex>>
    /\ UNCHANGED parked

\* head of for (const doc of pendingDocs), and the response after the loop
BatchLoop ==
    /\ inv.pc = "b_loop"
    /\ inv' = IF inv.k > Len(inv.docs)
              THEN Respond(inv, 200, inv.results)
              ELSE [inv EXCEPT !.pc = "b_download"]
    /\ UNCHANGED <<ledger, store, nops, lastEdit, ex>>
    /\ UNCHANGED parked

\* supabase.storage.from('legal-docs').download(doc.filename)
BatchDownload ==
    /\ inv.pc = "b_download"
    /\ \/ inv' = [Logged(Called(inv, "obj"), "download") EXCEPT !.pc = "b_phase1"]
       \/ inv' = [Logged(Called(inv, "obj"), "download_failed") EXCEPT !.pc = "b_skip"]
    /\ UNCHANGED <<ledger, store, nops, lastEdit, ex>>
    /\ UNCHANGED parked

\* if (downloadError): supabase update to error (its error is not looked at); continue
BatchSkip ==
    /\ inv.pc = "b_skip"
    /\ \/ /\ ledger' = LedgerUpdated(CurDoc.id, ErrorColumns(FileNotFoundMsg))
          /\ lastEdit' = Forget(CurDoc.id)
       \/ UNCHANGED <<ledger, lastEdit>>
    /\ inv' = BatchNextDoc(Logged(Called(inv, "ledger_write"), "skipped"))
    /\ UNCHANGED <<store, nops, ex>>
    /\ UNCHANGED parked

\* result1 = await model.generateContent(...); parse; search only with a context
BatchPhase1 ==
    /\ inv.pc = "b_phase1"
    /\ \/ \E e \in Errors :
              inv' = [Logged(Called(inv, "gen"), "phase1_failed")
                         EXCEPT !.pc = "b_catch", !.err = e]
       \/ \E o \in ParseOutcomes1 :
              inv' = IF Phase1Data(o).search_context # ""
                     THEN [Logged(Called(inv, "gen"), "phase1")
                              EXCEPT !.p1 = Phase1Data(o), !.pc = "b_embed"]
                     ELSE [Logged(Called(inv, "gen"), "phase1")
                              EXCEPT !.p1 = Phase1Data(o), !.past = NoContextMsg,
                                     !.pc = "b_phase3"]
       \/ \E r \in ParseRaises1 :
              inv' = [Logged(Called(inv, "gen"), "phase1_failed")
                         EXCEPT !.pc = "b_catch", !.err = r]
    /\ UNCHANGED <<ledger, store, nops, lastEdit, ex>>
    /\ UNCHANGED parked

\* searchPinecone: embedResult = await embedModel.embedContent(queryText); catch -> sentinel
BatchEmbed ==
    /\ inv.pc = "b_embed"
    /\ \/ inv' = [Logged(Called(inv, "embed"), "search_failed")
                     EXCEPT !.past = SearchFailedMsg, !.pc = "b_phase3"]
       \/ inv' = [Called(inv, "embed") EXCEPT !.pc = "b_query"]
    /\ UNCHANGED <<ledger, store, nops, lastEdit, ex>>
    /\ UNCHANGED parked

\* searchPinecone: index.query(...); catch -> sentinel
BatchQuery ==
    /\ inv.pc = "b_query"
    /\ \/ inv' = [Logged(Called(inv, "vec"), "search_failed")
                     EXCEPT !.past = SearchFailedMsg, !.pc = "b_phase3"]
       \/ inv' = [Logged(Called(inv, "vec"), "search")
                     EXCEPT !.past = RenderMatches, !.pc = "b_phase3"]
    /\ UNCHANGED <<ledger, store, nops, lastEdit, ex>>
    /\ UNCHANGED parked

\* result2 = await model.generateContent(...); parse or fall back
BatchPhase3 ==
    /\ inv.pc = "b_phase3"
    /\ \/ \E e \in Errors :
              inv' = [Logged(Called(inv, "gen"), "phase3_failed")
                         EXCEPT !.pc = "b_catch", !.err = e]
       \/ \E o \in ParseOutcomes3 :
              inv' = [Logged(Called(inv, "gen"), "phase3")
                         EXCEPT !.p3 = Phase3Data(o), !.pc = "b_commit"]
       \/ \E r \in ParseRaises3 :
              inv' = [Logged(Called(inv, "gen"), "phase3_failed")
                         EXCEPT !.pc = "b_catch", !.err = r]
    /\ UNCHANGED <<ledger, store, nops, lastEdit, ex>>
    /\ UNCHANGED parked

\* columns written by the commit: status, ai_result, updated_at
BatchCommitColumns(finalResult) ==
    [status |-> "processed", ai_result |-> finalResult, updated_at |-> Now]

\* supabase update; if (updateError) throw; results.push({ filename, status })
BatchCommit ==
    /\ inv.pc = "b_commit"
    /\ LET finalResult == BatchFinalResult(inv.p1, inv.p3, inv.past)
       IN  \/ /\ ledger' = LedgerUpdated(CurDoc.id, BatchCommitColumns(finalResult))
              /\ lastEdit' = Forget(CurDoc.id)
              /\ inv' = BatchNextDoc(Pushed(Logged(Called(inv, "ledger_write"), "commit"),
                            [id |-> CurDoc.id, status |-> "processed"]))
           \/ /\ inv' = [Logged(Called(inv, "ledger_write"), "commit_failed")
                            EXCEPT !.pc = "b_catch", !.err = "db error"]
              /\ UNCHANGED <<ledger, lastEdit>>
    /\ UNCHANGED <<store, nops, ex>>
    /\ UNCHANGED parked

\* catch (docError): supabase update to error (its error is not looked at)
BatchCatch ==
    /\ inv.pc = "b_catch"
    /\ \/ /\ ledger' = LedgerUpdated(CurDoc.id, ErrorColumns(inv.err))
          /\ lastEdit' = Forget(CurDoc.id)
       \/ UNCHANGED <<ledger, lastEdit>>
    /\ inv' = BatchNextDoc(Logged(Called(inv, "ledger_write"), "error"))
    /\ UNCHANGED <<store, nops, ex>>
    /\ UNCHANGED parked

---------------------------------------------------------------------------
(* Two pipeline invocations at once: each is its own serverless run; they  *)
(* share the ledger and the stores only, and interleave at their awaits    *)

\* a second request arrives while an invocation waits at an await
StartConcurrent ==
    /\ inv.op = "pipeline" /\ ~Quiescent
    /\ parked = NoParked
    /\ nops < MaxOps
    /\ nops' = nops + 1
    /\ parked' = [inv |-> inv, ex |-> ex]
    /\ \E d \in ReqIds \cup {NoDocId} :
           inv' = Begin("pipeline", "p_select", d, NullText, NoPayload)
    /\ ex' = ExIdle
    /\ UNCHANGED <<ledger, store, lastEdit>>

\* the waiting invocation gets its answer and runs on; the running one waits
Switch ==
    /\ parked.inv.pc \notin {"idle", "done"}
    /\ inv' = parked.inv
    /\ ex' = parked.ex
    /\ parked' = [inv |-> inv, ex |-> ex]
    /\ UNCHANGED <<ledger, store, nops, lastEdit>>

---------------------------------------------------------------------------
(* Specifications *)

Init ==
    /\ ledger = [id \in ReqIds |->
                    IF id \in Ids THEN Row("pending", NullResult, NullText, FALSE) ELSE NoRow]
    /\ store = [id \in VecIds |-> NoVec]
    /\ nops = 0
    /\ inv = InvIdle
    /\ lastEdit = [id \in ReqIds |-> NoPayload]
    /\ ex = ExIdle
    /\ parked = NoParked

Next ==
    \/ StartGet \/ GetFetch
    \/ StartUpdate \/ UpdateEmbed \/ UpdateUpsert \/ UpdateLedger
    \/ StartDelete \/ DeleteVector \/ DeleteLedger
    \/ StartConfirm \/ ConfirmLoad \/ ConfirmEmbed \/ ConfirmUpsert \/ ConfirmLedger
    \/ StartPipeline \/ PipelineSelect \/ PipelineRules \/ PipelineLoop
    \/ PipelineDownload \/ PipelinePhase1 \/ PipelineEmbed \/ PipelineQuery
    \/ PipelinePhase3 \/ PipelineCommit \/ PipelineCatch
    \/ StartView \/ ViewQuery
    \/ StartTrain \/ TrainEmbed \/ TrainUpsert
    \/ ExCall \/ ExWait

Spec == Init /\ [][Next]_vars

\* the executor alone, for every retry budget and initial delay of the bounds
InitRetry ==
    /\ ledger = [id \in ReqIds |->
                    IF id \in Ids THEN Row("pending", NullResult, NullText, FALSE) ELSE NoRow]
    /\ store = [id \in VecIds |-> NoVec]
    /\ nops = MaxOps
    /\ inv = InvIdle
    /\ lastEdit = [id \in ReqIds |-> NoPayload]
    /\ ex \in {ExStart(r, d) : r \in 0..MaxRetriesArg,
                               d \in (1..MaxDelayArg) \cup {DefaultDelayMs}}
    /\ parked = NoParked

NextRetry == ExCall \/ ExWait

SpecRetry == InitRetry /\ [][NextRetry]_vars

\* a result stored by an earlier batch run
StoredResult == BatchFinalResult(Phase1Data("ctx"), Phase3Data("parsed"), NoSimilarMsg)

\* the batch variant alone, over ledgers whose entries are pending or already processed
InitBatch ==
    /\ ledger \in {l \in [ReqIds -> {Row("pending", NullResult, NullText, FALSE),
                                      Row("processed", StoredResult, NullText, FALSE), NoRow}] :
                       \A id \in ReqIds : (l[id] = NoRow) <=> (id = MissingId)}
    /\ store = [id \in VecIds |-> NoVec]
    /\ nops = 0
    /\ inv = InvIdle
    /\ lastEdit = [id \in ReqIds |-> NoPayload]
    /\ ex = ExIdle
    /\ parked = NoParked

NextBatch ==
    \/ StartBatch \/ BatchSelect \/ BatchRules \/ BatchLoop \/ BatchDownload \/ BatchSkip
    \/ BatchPhase1 \/ BatchEmbed \/ BatchQuery \/ BatchPhase3 \/ BatchCommit \/ BatchCatch

SpecBatch == InitBatch /\ [][NextBatch]_vars

\* two pipeline invocations, one after the other or interleaved
InitConc ==
    /\ ledger = [id \in ReqIds |->
                    IF id \in Ids THEN Row("pending", NullResult, NullText, FALSE) ELSE NoRow]
    /\ store = [id \in VecIds |-> NoVec]
    /\ nops = MaxOps - 2
    /\ inv = InvIdle
    /\ lastEdit = [id \in ReqIds |-> NoPayload]
    /\ ex = ExIdle
    /\ parked = NoParked

NextConc ==
    \/ StartPipeline \/ StartConcurrent \/ Switch
    \/ PipelineSelect \/ PipelineRules \/ PipelineLoop
    \/ PipelineDownload \/ PipelinePhase1 \/ PipelineEmbed \/ PipelineQuery
    \/ PipelinePhase3 \/ PipelineCommit \/ PipelineCatch
    \/ ExCall \/ ExWait

SpecConc == InitConc /\ [][NextConc]_vars

---------------------------------------------------------------------------
(* Claims about the executor (SpecRetry) *)

AllThrottled == \A n \in DOMAIN ex.hist : ex.hist[n] = "429"

RECURSIVE Pow2(_)
Pow2(n) == IF n = 0 THEN 1 ELSE 2 * Pow2(n - 1)

\* C3: an operation that signals throttling on every call is called exactly
\* maxRetries + 1 times and then its last failure is thrown; no value is
\* returned and there is never a call beyond maxRetries + 1.
C3_RetryBound ==
    /\ ex.pc # "idle" => ex.calls <= ex.maxRetries + 1
    /\ (ex.pc # "idle" /\ AllThrottled) =>
        /\ ex.pc # "returned"
        /\ (ex.pc = "thrown" => ex.calls = ex.maxRetries + 1 /\ ex.thrown = "429")
        /\ (ex.calls = ex.maxRetries + 1 => ex.pc = "thrown")

C3_Witness ==
    /\ ex.pc = "thrown" /\ AllThrottled
    /\ ex.maxRetries >= 2 /\ ex.calls = ex.maxRetries + 1

\* C4: the n-th wait between attempts lasts initialDelay * 2^(n-1): the waits
\* are initialDelay, 2*initialDelay, 4*initialDelay, ..., each double the one before.
C4_BackoffSchedule ==
    /\ \A n \in DOMAIN ex.waits : ex.waits[n] = ex.initialDelay * Pow2(n - 1)
    /\ \A n \in DOMAIN ex.waits : n > 1 => ex.waits[n] = 2 * ex.waits[n - 1]
    /\ (ex.pc = "call" /\ Len(ex.waits) > 0) => ex.delayMs = 2 * ex.waits[Len(ex.waits)]

C4_Witness == Len(ex.waits) >= 3 /\ ex.initialDelay > 1

\* C5: a failure that is not a throttling signal is thrown at once: it is the
\* last call, no delay follows it, whatever the retries left, and the caller
\* gets that same failure.
C5_OtherFailurePropagates ==
    \A n \in DOMAIN ex.hist :
        ex.hist[n] = "other" =>
            /\ n = Len(ex.hist) /\ ex.calls = n
            /\ ex.pc = "thrown" /\ ex.thrown = "other"
            /\ Len(ex.waits) = n - 1

C5_Witness ==
    /\ ex.pc = "thrown" /\ ex.thrown = "other"
    /\ ex.retries > 0 /\ ex.calls > 1

---------------------------------------------------------------------------
(* Claims about the handlers (Spec) *)

Done(op) == inv.op = op /\ inv.pc = "done"

\* the steps logged for entry id in the current invocation
Ev(id) == {inv.log[n].ev : n \in {m \in DOMAIN inv.log : inv.log[m].id = id}}

Selected == {inv.docs[n].id : n \in DOMAIN inv.docs}

ExternalWork == {"gen", "embed", "obj", "vec", "ledger_write"}

\* C1: at the end of a pipeline invocation an entry whose download failed has
\* ledger status error with a reason recorded, and an entry whose phases
\* succeeded has status processed.
C1_DownloadFailureMarksError ==
    Done("pipeline") =>
        \A id \in Selected :
            /\ "download_failed" \in Ev(id) =>
                   /\ ledger[id].status = "error"
                   /\ "error" \in DOMAIN ledger[id].ai_result
            /\ "commit" \in Ev(id) => ledger[id].status = "processed"

\* C2: a pipeline run for an explicit id whose entry is processed with a result
\* attached calls neither the generation/embedding service nor the object
\* store nor the semantic store, writes nothing to the ledger, and answers
\* with the stored result unchanged.
C2_IdempotentReserve ==
    (/\ inv.op = "pipeline" /\ inv.docId # NoDocId /\ inv.docs # <<>>
     /\ inv.docs[1].status = "processed" /\ inv.docs[1].ai_result # NullResult) =>
        /\ inv.calls \cap ExternalWork = {}
        /\ ex.pc = "idle"
        /\ ledger[inv.docId].status = "processed"
        /\ ledger[inv.docId].ai_result = inv.docs[1].ai_result
        /\ inv.pc = "done" =>
               /\ inv.code = 200
               /\ inv.body = <<[id |-> inv.docId, status |-> "processed",
                                result |-> inv.docs[1].ai_result]>>

C2_Witness ==
    /\ Done("pipeline") /\ inv.docId \in Ids /\ inv.code = 200
    /\ inv.docs # <<>> /\ inv.docs[1].status = "processed"
    /\ Len(inv.body) = 1 /\ inv.body[1].result = ledger[inv.docId].ai_result
    /\ "step3_rag_analysis" \in DOMAIN ledger[inv.docId].ai_result

\* C6: whenever confirm(id, feedback) reports success the semantic store holds
\* a vector with that id and the ledger entry is completed, carries the
\* feedback and has indexed = true.
C6_ConfirmConsistent ==
    (Done("confirm") /\ inv.code = 200) =>
        /\ HasVec(inv.docId)
        /\ ledger[inv.docId].status = "completed"
        /\ ledger[inv.docId].user_feedback = inv.feedback
        /\ ledger[inv.docId].pinecone_indexed = TRUE

\* C7: after delete(id) reports success the semantic store holds no vector with
\* that id and the ledger still holds the entry, with status deleted; no
\* operation removes a ledger row.
C7_SoftDelete ==
    /\ \A id \in Ids : HasRow(id)
    /\ (Done("delete") /\ inv.code = 200 /\ inv.docId \in Ids) =>
           /\ ~HasVec(inv.docId)
           /\ ledger[inv.docId].status = "deleted"

C7_Witness ==
    /\ Done("delete") /\ inv.code = 200 /\ inv.docId \in Ids
    /\ ledger[inv.docId].pinecone_indexed = TRUE
    /\ ~HasVec(inv.docId) /\ ledger[inv.docId].status = "deleted"

\* C8: a get(id) that follows a successful update(id, payload), with no other
\* write to id in between, returns metadata whose content, feedback and
\* document type are those of payload.
C8_EditRoundTrip ==
    (Done("get") /\ lastEdit[inv.docId] # NoPayload) =>
        /\ inv.code # 404
        /\ inv.code = 200 =>
               /\ FieldOr(inv.body, "fullContent", NullText) = lastEdit[inv.docId].fullContent
               /\ FieldOr(inv.body, "userFeedback", NullText) = lastEdit[inv.docId].userFeedback
               /\ FieldOr(inv.body, "docType", NullText) = lastEdit[inv.docId].docType

C8_Witness ==
    /\ Done("get") /\ inv.code = 200 /\ inv.docId \in Ids
    /\ lastEdit[inv.docId] # NoPayload
    /\ inv.body.fullContent = "edited"

\* C9: whenever no handler is in progress, a vector with an entry's id exists
\* exactly when the entry has indexed = true.
C9_IndexFlagInvariant ==
    Quiescent => \A id \in Ids : HasVec(id) <=> ledger[id].pinecone_indexed

\* C10: with the rules source unreachable the loader yields the sentinel for
\* both documents and raises nothing; an entry whose download and generation
\* calls succeed still runs phase 3 and its commit sets status processed.
C10_GracefulDegradation ==
    /\ \A reading \in FetchOutcomes, logic \in FetchOutcomes :
           (reading # "ok" \/ logic # "ok") => FetchGithubRules(reading, logic) = LoadFailed
    /\ (inv.op = "pipeline" /\ "rules" \in inv.calls) =>
           /\ inv.rules # NoRules
           /\ inv.pc = "done" => inv.code = 200
    /\ (Done("pipeline") /\ inv.rules = LoadFailed) =>
           \A id \in Selected :
               /\ ("download" \in Ev(id) /\ "phase1" \in Ev(id)) =>
                      ("phase3" \in Ev(id) \/ "phase3_failed" \in Ev(id))
               /\ "phase3" \in Ev(id) =>
                      ("commit" \in Ev(id) \/ "commit_failed" \in Ev(id))
               /\ "commit" \in Ev(id) =>
                      /\ ledger[id].status = "processed"
                      /\ \E n \in DOMAIN inv.body :
                             inv.body[n].id = id /\ inv.body[n].status = "processed"

C10_Witness ==
    /\ Done("pipeline") /\ inv.rules = LoadFailed
    /\ \E id \in Selected :
           /\ {"download", "phase1", "phase3", "commit"} \subseteq Ev(id)
           /\ ledger[id].status = "processed"

InEntry == inv.op = "pipeline" /\ inv.pc \in {"p_download", "p_phase1", "p_embed", "p_query",
                                              "p_phase3", "p_commit", "p_catch"}

\* C11: when the embedding call or the semantic-store query of the retrieval
\* fails, the retrieval yields its failure sentinel and raises nothing: the
\* entry goes on to phase 3 (it reaches its catch only through a failed
\* phase 3 or a failed commit), and its commit stores status processed with
\* the sentinel as the past-cases summary.
C11_RetrievalResilience ==
    /\ (InEntry /\ "search_failed" \in Ev(CurDoc.id)) =>
           /\ inv.past = SearchFailedMsg
           /\ inv.pc \in {"p_phase3", "p_commit", "p_catch"}
           /\ inv.pc = "p_phase3" => ex.pc # "idle"
           /\ inv.pc = "p_commit" => "phase3" \in Ev(CurDoc.id)
           /\ inv.pc = "p_catch" =>
                  ("phase3_failed" \in Ev(CurDoc.id) \/ "commit_failed" \in Ev(CurDoc.id))
    /\ Done("pipeline") =>
           \A id \in Selected :
               ("search_failed" \in Ev(id) /\ "phase3" \in Ev(id)) =>
                   /\ ("commit" \in Ev(id) \/ "commit_failed" \in Ev(id))
                   /\ "commit" \in Ev(id) =>
                          /\ ledger[id].status = "processed"
                          /\ ledger[id].ai_result.past_cases_summary = SearchFailedMsg

C11_Witness ==
    /\ Done("pipeline") /\ inv.code = 200
    /\ \E id \in Selected :
           /\ {"search_failed", "phase3", "commit"} \subseteq Ev(id)
           /\ "vec" \in inv.calls
           /\ ledger[id].status = "processed"
           /\ ledger[id].ai_result.past_cases_summary = SearchFailedMsg

\* C12: an entry whose processing raised (a generation call failed after its
\* retries, the commit write failed) ends the invocation with ledger status
\* error and the exception message recorded, and the invocation still
\* answers 200 and lists the entry as failed.
C12_EntryFailureIsolated ==
    Done("pipeline") =>
        \A id \in Selected :
            "error" \in Ev(id) =>
                /\ inv.code = 200
                /\ \E n \in DOMAIN inv.body :
                       inv.body[n].id = id /\ inv.body[n].status = "error"
                /\ ledger[id].status = "error"
                /\ ledger[id].ai_result = [error |-> inv.body[1].result.error]

\* C13: when the selection query of the pipeline fails, the invocation ends
\* at once with a failure answer (500 with the message); it has selected no
\* entry, fetched no rules, downloaded nothing, made no generation or
\* embedding call, not touched the semantic store and written nothing to
\* the ledger. No other failure gives the pipeline a failure answer.
C13_SelectionFailureAborts ==
    /\ (inv.op = "pipeline" /\ inv.err = SelectFailedMsg) =>
           /\ inv.pc = "done" /\ inv.code = 500
           /\ inv.calls = {} /\ inv.docs = <<>> /\ inv.log = <<>> /\ inv.results = <<>>
           /\ ex.pc = "idle"
    /\ (Done("pipeline") /\ inv.code # 200) => inv.err = SelectFailedMsg

C13_Witness ==
    /\ Done("pipeline") /\ inv.err = SelectFailedMsg /\ inv.code = 500
    /\ \E id \in Ids : ledger[id].status = "processed"
    /\ \E id \in Ids : ledger[id].status = "pending"

\* C14: a pipeline run without an explicit id selects at most one entry; the
\* entry had status pending or error when selected, and no other entry with
\* status pending or error is older; with no pending or error entry nothing
\* is selected.
C14_AutoSelection ==
    (inv.op = "pipeline" /\ inv.docId = NoDocId /\ inv.pc # "p_select") =>
        /\ Len(inv.docs) <= 1
        /\ \A n \in DOMAIN inv.docs :
               /\ inv.docs[n].status \in {"pending", "error"}
               /\ \A j \in Ids \ {inv.docs[n].id} :
                      ledger[j].status \in {"pending", "error"} =>
                          CreatedAt(inv.docs[n].id) <= CreatedAt(j)
        /\ (inv.docs = <<>> /\ inv.err # SelectFailedMsg) =>
               \A j \in Ids : ledger[j].status \notin {"pending", "error"}

C14_Witness ==
    /\ inv.op = "pipeline" /\ inv.docId = NoDocId /\ Len(inv.docs) = 1
    /\ inv.docs[1].id # 1
    /\ ledger[1].status \in {"processed", "completed", "deleted"}

\* C15: a pipeline run with an explicit id selects the entry of that id
\* whatever its status, and only that entry; entries in every status are
\* selected this way.
C15_ForcedSelection ==
    (inv.op = "pipeline" /\ inv.docId \in Ids /\ inv.pc # "p_select"
        /\ inv.err # SelectFailedMsg) =>
        /\ Len(inv.docs) = 1
        /\ inv.docs[1].id = inv.docId
        /\ inv.docs[1].status \in Statuses

C15_Witness ==
    /\ inv.op = "pipeline" /\ inv.docId \in Ids /\ Len(inv.docs) = 1
    /\ inv.docs[1].status \in {"completed", "deleted"}
    /\ inv.pc = "p_phase1"

\* position of a logged step in the sequence of one entry
Rank(ev) ==
    CASE ev = "cache" -> 0
      [] ev \in {"download", "download_failed"} -> 1
      [] ev \in {"phase1", "phase1_failed"} -> 2
      [] ev \in {"search", "search_failed"} -> 3
      [] ev \in {"phase3", "phase3_failed"} -> 4
      [] ev \in {"commit", "commit_failed"} -> 5
      [] ev = "error" -> 6

\* step e of the same entry is logged before position n
Earlier(n, e) == \E m \in 1..(n - 1) : inv.log[m].id = inv.log[n].id /\ inv.log[m].ev = e

\* C16: the steps of an analysed entry happen in the order download, phase 1,
\* retrieval (if any), phase 3, commit: a step is taken only after the step
\* before it has returned, a generation or embedding call is in flight only
\* while its phase waits for it, and status processed is committed only
\* after phase 3 has returned.
C16_PhaseOrdering ==
    inv.op = "pipeline" =>
        /\ \A m, n \in DOMAIN inv.log :
               (m < n /\ inv.log[m].id = inv.log[n].id) =>
                   Rank(inv.log[m].ev) < Rank(inv.log[n].ev)
        /\ \A n \in DOMAIN inv.log :
               LET ev == inv.log[n].ev
               IN  /\ ev \in {"phase1", "phase1_failed"} => Earlier(n, "download")
                   /\ ev \in {"search", "search_failed"} => Earlier(n, "phase1")
                   /\ ev \in {"phase3", "phase3_failed"} => Earlier(n, "phase1")
                   /\ ev \in {"commit", "commit_failed"} => Earlier(n, "phase3")
        /\ ex.pc \in {"call", "wait"} => inv.pc \in {"p_phase1", "p_embed", "p_phase3"}
        /\ inv.pc = "p_phase1" => "download" \in Ev(CurDoc.id) /\ "phase1" \notin Ev(CurDoc.id)
        /\ inv.pc \in {"p_embed", "p_query"} =>
               "phase1" \in Ev(CurDoc.id) /\ "phase3" \notin Ev(CurDoc.id)
        /\ inv.pc = "p_phase3" => "phase1" \in Ev(CurDoc.id) /\ "phase3" \notin Ev(CurDoc.id)
        /\ inv.pc = "p_commit" => "phase3" \in Ev(CurDoc.id) /\ "commit" \notin Ev(CurDoc.id)

C16_Witness ==
    /\ Done("pipeline") /\ Len(inv.log) = 5
    /\ [n \in 1..5 |-> inv.log[n].ev] = <<"download", "phase1", "search", "phase3", "commit">>
    /\ ledger[inv.log[5].id].status = "processed"

\* C18: confirm for an id with no ledger row fails and says so (500 with the
\* message); it requests no embedding, upserts no vector and writes no ledger
\* row.
C18_ConfirmMissingEntry ==
    (inv.op = "confirm" /\ ~HasRow(inv.docId)) =>
        /\ inv.pc \in {"c_load", "done"}
        /\ inv.calls = {}
        /\ inv.doc = NoRow
        /\ inv.pc = "done" => inv.code = 500 /\ inv.body = "not found"

C18_Witness ==
    /\ Done("confirm") /\ inv.docId = MissingId /\ inv.code = 500
    /\ \E id \in Ids : HasVec(id) /\ ledger[id].status = "completed"

\* C19: after update(id, payload) reports success the vector's metadata holds
\* the content, feedback and document type of payload, and the ledger row
\* has status completed and the feedback of payload.
C19_UpdateSync ==
    (Done("update") /\ inv.code = 200 /\ inv.docId \in Ids) =>
        /\ HasVec(inv.docId)
        /\ store[inv.docId].fullContent = inv.payload.fullContent
        /\ store[inv.docId].userFeedback = inv.payload.userFeedback
        /\ store[inv.docId].docType = inv.payload.docType
        /\ ledger[inv.docId].status = "completed"
        /\ ledger[inv.docId].user_feedback = inv.payload.userFeedback

\* C20: delete removes the vector before it changes the ledger: its step on
\* the semantic store leaves the ledger as it was, its step on the ledger
\* is taken only with the vector gone and sets status deleted, and once the
\* ledger write has been tried no vector of that id is in the store, so a
\* failure between the two steps leaves the vector gone and the row
\* unchanged, never the row deleted with the vector present.
C20_DeleteOrdering ==
    /\ []((inv.op = "delete" /\ inv.pc = "d_ledger") => ~HasVec(inv.docId))
    /\ []((inv.op = "delete" /\ "ledger_write" \in inv.calls) => ~HasVec(inv.docId))
    /\ [][inv.op = "delete" =>
              /\ store' # store =>
                     /\ ledger' = ledger
                     /\ "ledger_write" \notin inv.calls
                     /\ store'[inv.docId] = NoVec
              /\ ledger' # ledger =>
                     /\ store' = store
                     /\ ~HasVec(inv.docId)
                     /\ ledger'[inv.docId].status = "deleted"]_vars

C20_Witness ==
    /\ Done("delete") /\ inv.code = 500 /\ "ledger_write" \in inv.calls
    /\ inv.docId \in Ids /\ ~HasVec(inv.docId)
    /\ ledger[inv.docId].status = "completed"
    /\ ledger[inv.docId].pinecone_indexed = TRUE

\* C22 as stated: get answers with the metadata of the vector when there is
\* one, and with the ledger's copy when there is none but the ledger has
\* the entry.
C22_GetFallsBackToLedger ==
    (Done("get") /\ inv.code # 500) =>
        IF HasVec(inv.docId)
        THEN inv.code = 200 /\ inv.body = store[inv.docId]
        ELSE HasRow(inv.docId) => (inv.code = 200 /\ "ledger_read" \in inv.calls)

\* C22 amended: get answers with the metadata of the vector when there is
\* one; when there is none it answers 404, also for an entry the ledger
\* holds, and it never reads the ledger.
C22_GetFromStoreOnly ==
    /\ inv.op = "get" => inv.calls \subseteq {"vec"}
    /\ (Done("get") /\ inv.code # 500) =>
           IF HasVec(inv.docId)
           THEN inv.code = 200 /\ inv.body = store[inv.docId]
           ELSE inv.code = 404

C22_Witness ==
    /\ Done("get") /\ inv.code = 404 /\ inv.docId \in Ids
    /\ ~HasVec(inv.docId)
    /\ ledger[inv.docId].status = "processed"

\* C23: an invocation in list or count mode is a pure read: none of its steps
\* changes a ledger row or a vector, and it calls neither the generation or
\* embedding service nor the object store nor the rules source; it only
\* queries the ledger.
C23_ViewsArePureReads ==
    /\ [](inv.op \in Views => (inv.calls \subseteq {"ledger_read"} /\ ex.pc = "idle"))
    /\ [][inv.op \in Views => (ledger' = ledger /\ store' = store)]_vars

C23_Witness ==
    /\ inv.op = "queue_count" /\ inv.pc = "done" /\ inv.code = 200 /\ inv.body = 1
    /\ \E id \in Ids : ledger[id].status \in {"completed", "deleted"} /\ HasVec(id)

\* the store differs at id after the step
VecChanged(id) == store'[id] # store[id]

\* C24 as stated: a vector is created or overwritten only by confirm or by
\* the manual-training save, removed only by delete, and the pipeline never
\* touches a vector.
C24_WritersConfirmAndTrain ==
    [][\A id \in VecIds :
          VecChanged(id) =>
             IF store'[id] = NoVec THEN inv.op = "delete"
             ELSE inv.op \in {"confirm", "train"}]_vars

\* C24, amended: a vector is created or overwritten only by confirm, by
\* update or by the manual-training save, and removed only by delete; the
\* pipeline and the read operations never change the store.
C24_VectorLifecycle ==
    [][/\ \A id \in VecIds :
            VecChanged(id) =>
               IF store'[id] = NoVec THEN inv.op = "delete"
               ELSE inv.op \in {"confirm", "update", "train"}
       /\ inv.op \in {"pipeline", "get"} \cup Views => store' = store]_vars

\* update has created a vector for an entry that was never confirmed, next
\* to a vector stored by a manual-training save
C24_Witness ==
    /\ Done("update") /\ inv.code = 200
    /\ inv.docId \in Ids /\ HasVec(inv.docId)
    /\ ledger[inv.docId].pinecone_indexed = FALSE
    /\ \E t \in TrainIds : HasVec(t) /\ store[t].type = "verified_instruction"

\* the ledger write of the step changes the status or the content of id
RowMutated(id) ==
    /\ HasRow(id)
    /\ \/ ledger'[id].status # ledger[id].status
       \/ ledger'[id].ai_result # ledger[id].ai_result
       \/ ledger'[id].user_feedback # ledger[id].user_feedback

\* C25: every ledger write that changes an entry's status or content
\* (pipeline commit, pipeline error recording, confirm, update, delete)
\* also sets that entry's updated_at to the time of the write.
C25_UpdatedAtRefreshed ==
    [][\A id \in Ids : RowMutated(id) => ledger'[id].updated_at = Now]_vars

\* the stage of a status in the lifecycle pending -> processed|error -> completed/deleted
Stage(st) ==
    CASE st = "pending" -> 0
      [] st \in {"processed", "error"} -> 1
      [] st \in {"completed", "deleted"} -> 2

\* C26: an entry's status moves only along pending -> processed|error ->
\* completed/deleted: a change of status stays within its stage or enters
\* the next one, so no step takes an entry from pending to completed.
C26_StatusLifecycle ==
    [][\A id \in Ids :
          (HasRow(id) /\ ledger'[id].status # ledger[id].status) =>
             Stage(ledger'[id].status) \in
                {Stage(ledger[id].status), Stage(ledger[id].status) + 1}]_vars

\* C27: when a phase-1 or phase-3 generation call of the pipeline is
\* throttled until the executor's retries are exhausted, the invocation
\* still answers 200, lists the entry as failed, and the entry's ledger
\* status is error with the throttling message recorded.
C27_ThrottlingExhaustionIsEntryError ==
    Done("pipeline") =>
        \A id \in Selected :
            \A n \in DOMAIN inv.results :
                ( /\ inv.results[n].id = id /\ inv.results[n].status = "error"
                  /\ IsThrottle(inv.results[n].result.error)
                  /\ Ev(id) \cap {"phase1_failed", "phase3_failed"} # {} ) =>
                    /\ inv.code = 200
                    /\ inv.body = inv.results
                    /\ ledger[id].status = "error"
                    /\ ledger[id].ai_result = [error |-> inv.results[n].result.error]

\* the retrieval of the current entry has been started
Searching == inv.op = "pipeline" /\ inv.pc \in {"p_embed", "p_query"}

\* the current entry has passed its retrieval step, searched or not
AfterSearch == inv.op = "pipeline" /\ inv.pc \in {"p_phase3", "p_commit"}

SearchEvents == {"search", "search_failed"}

\* C28: the retrieval is called for an entry exactly when phase 1 produced a
\* non-empty search context. After an unparsable phase-1 answer the
\* placeholders stand in for the phase-1 data, the retrieval is not called,
\* the retrieved context is the fixed "no context" sentinel, and the phase-3
\* call is started.
C28_SearchGating ==
    /\ [](Searching => inv.p1.search_context # "")
    /\ [](AfterSearch =>
             IF inv.p1.search_context # ""
             THEN Ev(CurDoc.id) \cap SearchEvents # {} /\ inv.past # NoContextMsg
             ELSE Ev(CurDoc.id) \cap SearchEvents = {} /\ inv.past = NoContextMsg)
    /\ [][(inv.pc = "p_phase1" /\ inv'.pc \in {"p_embed", "p_phase3"}) =>
             /\ inv'.pc = "p_embed" <=> inv'.p1.search_context # ""
             /\ ex'.pc = "call"
             /\ inv'.p1 \in {Phase1Data(o) : o \in ParseOutcomes1}
             /\ inv'.p1.extraction = "Error" =>
                    /\ inv'.p1 = Phase1Data("unparsable")
                    /\ inv'.pc = "p_phase3" /\ inv'.past = NoContextMsg]_vars

\* an entry analysed without retrieval after an unparsable phase-1 answer
\* has been committed, and so has an entry analysed with retrieval
C28_Witness ==
    /\ Done("pipeline") /\ inv.code = 200
    /\ \E a \in Ids, b \in Selected :
           /\ "vec" \in inv.calls
           /\ ledger[a].status = "processed" /\ ledger[b].status = "processed"
           /\ ledger[a].ai_result.step1_extraction = "Error"
           /\ ledger[a].ai_result.past_cases_summary = NoContextMsg
           /\ "search" \in Ev(b)
           /\ ledger[b].ai_result.step1_extraction = "facts"
           /\ ledger[b].ai_result.past_cases_summary = NoSimilarMsg

\* the placeholders of an unparsable answer are in the data of the current entry
Degraded ==
    \/ inv.p1 = Phase1Data("unparsable")
    \/ inv.p3 = Phase3Data("unparsable")

C33_DeletedIsTerminal ==
    [][\A id \in Ids :
          ledger[id].status = "deleted" =>
             /\ ledger'[id].status = "deleted"
             /\ ~HasVec(id) => store'[id] = NoVec]_vars

\* C34: a pipeline invocation, automatic or forced by id, never changes the
\* status or the result of an entry whose status is completed.
C34_CompletedStableUnderPipeline ==
    [][inv.op = "pipeline" =>
          \A id \in Ids :
              ledger[id].status = "completed" =>
                 /\ ledger'[id].status = "completed"
                 /\ ledger'[id].ai_result = ledger[id].ai_result]_vars

\* C35: the processed array of a pipeline answer holds exactly one record
\* per selected entry, in selection order, and the status of each record is
\* the entry's ledger status at the end of the invocation.
C35_ResponseComplete ==
    (Done("pipeline") /\ inv.code = 200) =>
        /\ Len(inv.body) = Len(inv.docs)
        /\ \A n \in DOMAIN inv.body :
               /\ n \in DOMAIN inv.docs
               /\ inv.body[n].id = inv.docs[n].id
               /\ inv.body[n].status = ledger[inv.docs[n].id].status

\* program points of confirm and update before the vector is written
BeforeUpsert == inv.pc \in {"c_load", "c_embed", "u_embed"}

AtUpsert == inv.pc \in {"c_upsert", "u_upsert"}

\* C36: confirm and update change nothing before the embedding has been
\* made; when the embedding call fails the operation answers with a failure
\* and neither the semantic store nor the ledger has been modified; when the
\* upsert fails the operation answers with a failure and the ledger has not
\* been modified (nor has the store).
C36_FailureLeavesNoTrace ==
    /\ [][BeforeUpsert => (ledger' = ledger /\ store' = store)]_vars
    /\ [][(BeforeUpsert /\ inv'.pc = "done") => inv'.code = 500]_vars
    /\ [][AtUpsert => ledger' = ledger]_vars
    /\ [][(AtUpsert /\ inv'.pc = "done") => (inv'.code = 500 /\ store' = store)]_vars

\* an update whose embedding was made and whose upsert failed has answered
\* 500; the entry is as it was and has no vector
C36_Witness ==
    /\ Done("update") /\ inv.code = 500
    /\ inv.calls = {"embed", "vec"}
    /\ inv.docId \in Ids /\ ~HasVec(inv.docId)
    /\ ledger[inv.docId].status = "processed"

\* C37: confirm(id, feedback) changes in the ledger only the status, the
\* feedback and the indexed flag of entry id; the entry's analysis result
\* and every other entry stay as they are, and in the semantic store only
\* the vector with that id changes.
C37_ConfirmFrame ==
    [][inv.op = "confirm" =>
          /\ \A j \in ReqIds \ {inv.docId} : ledger'[j] = ledger[j]
          /\ \A j \in VecIds \ {inv.docId} : store'[j] = store[j]
          /\ HasRow(inv.docId) =>
                \A f \in DOMAIN ledger[inv.docId] \ {"status", "user_feedback", "pinecone_indexed"} :
                    ledger'[inv.docId][f] = ledger[inv.docId][f]]_vars

\* a confirm has succeeded on an analysed entry: status, feedback and flag
\* are new, the analysis result is still there, and the vector exists
C37_Witness ==
    /\ Done("confirm") /\ inv.code = 200
    /\ ledger[inv.docId].status = "completed"
    /\ ledger[inv.docId].user_feedback = inv.feedback /\ inv.feedback # NullText
    /\ ledger[inv.docId].pinecone_indexed = TRUE
    /\ "step3_rag_analysis" \in DOMAIN ledger[inv.docId].ai_result
    /\ HasVec(inv.docId)
    /\ \E j \in Ids \ {inv.docId} : ledger[j].status = "pending" /\ ~HasVec(j)

\* C39: a pipeline invocation whose selection returns no entry answers 200
\* with an empty processed list and has called neither the rules source, the
\* generation or embedding service, the object store nor the semantic store,
\* and has written nothing to the ledger. The rule loader is called only
\* once entries are selected, and at most once in an invocation.
C39_EmptySelection ==
    /\ []((inv.op = "pipeline" /\ inv.pc # "p_select" /\ inv.docs = <<>>
              /\ inv.err # SelectFailedMsg) =>
             /\ inv.pc = "done" /\ inv.code = 200 /\ inv.body = <<>>
             /\ inv.calls = {} /\ inv.log = <<>>
             /\ ex.pc = "idle")
    /\ []((inv.op = "pipeline" /\ "rules" \in inv.calls) =>
             (inv.docs # <<>> /\ inv.pc # "p_rules"))
    /\ [][(inv.op = "pipeline" /\ inv.pc = "p_select") =>
             (ledger' = ledger /\ store' = store)]_vars
    /\ [][(inv.op = "pipeline" /\ "rules" \in inv'.calls /\ "rules" \notin inv.calls) =>
             (inv.pc = "p_rules" /\ inv.docs # <<>>)]_vars

\* a forced run for an id that is not in the ledger has answered with an
\* empty list after another entry had been analysed
C39_Witness ==
    /\ Done("pipeline") /\ inv.code = 200 /\ inv.body = <<>>
    /\ inv.docId = MissingId /\ inv.docs = <<>> /\ inv.calls = {}
    /\ \E id \in Ids : ledger[id].status = "processed"

---------------------------------------------------------------------------
(* Claims about the batch variant (SpecBatch) *)

\* position of entry id in the selection of the invocation
Pos(id) == CHOOSE n \in DOMAIN inv.docs : inv.docs[n].id = id

\* the steps that end the processing of an entry: committed, recorded as error, skipped
Terminal == {"commit", "error", "skipped"}

Ended(id) == Ev(id) \cap Terminal # {}

\* C17: the entries of a batch are taken oldest first and one at a time: the
\* steps of the invocation never go back to an earlier entry, a step for an
\* entry happens only after the entry before it was committed, recorded as
\* error or skipped, and while an entry is in progress no later entry has
\* had any step.
C17_SequentialBatch ==
    inv.op = "batch" =>
        /\ \A m, n \in DOMAIN inv.docs :
               m < n => CreatedAt(inv.docs[m].id) < CreatedAt(inv.docs[n].id)
        /\ \A m, n \in DOMAIN inv.log :
               m < n => Pos(inv.log[m].id) <= Pos(inv.log[n].id)
        /\ \A n \in DOMAIN inv.log :
               Pos(inv.log[n].id) > 1 =>
                   \E m \in 1..(n - 1) :
                       /\ inv.log[m].id = inv.docs[Pos(inv.log[n].id) - 1].id
                       /\ inv.log[m].ev \in Terminal
        /\ \A id \in Selected : Cardinality(Ev(id) \cap Terminal) <= 1
        /\ inv.pc \in {"b_download", "b_skip", "b_phase1", "b_embed", "b_query",
                        "b_phase3", "b_commit", "b_catch"} =>
               /\ ~Ended(CurDoc.id)
               /\ \A n \in DOMAIN inv.docs :
                      /\ n < inv.k => Ended(inv.docs[n].id)
                      /\ n > inv.k => Ev(inv.docs[n].id) = {}
        /\ Done("batch") => \A id \in Selected : Ended(id)

C17_Witness ==
    /\ Done("batch") /\ Len(inv.docs) >= 2
    /\ "error" \in Ev(inv.docs[1].id)
    /\ "commit" \in Ev(inv.docs[2].id)
    /\ ledger[inv.docs[2].id].status = "processed"

---------------------------------------------------------------------------
(* Claims about concurrent invocations (SpecConc) *)

\* the steps the waiting invocation has logged for entry id
ParkedEv(id) ==
    {parked.inv.log[n].ev : n \in {m \in DOMAIN parked.inv.log : parked.inv.log[m].id = id}}

\* C21: nothing keeps two pipeline invocations off the same entry: the
\* selection writes nothing to the ledger (no claim is taken), and a commit
\* writes its own result to the row whatever the row holds by then, so of
\* two invocations that selected the same pending entry the last writer wins.
C21_LastWriterWins ==
    /\ [][inv.pc = "p_select" => ledger' = ledger]_vars
    /\ [][(inv.pc = "p_commit" /\ inv'.pc = "p_loop" /\ parked' = parked) =>
              /\ ledger'[CurDoc.id].status = "processed"
              /\ ledger'[CurDoc.id].ai_result = FinalResult(inv.p1, inv.p3, inv.past)]_vars

C21_Witness ==
    /\ Done("pipeline") /\ parked.inv.op = "pipeline" /\ parked.inv.pc = "done"
    /\ \E id \in Ids :
           /\ inv.docs # <<>> /\ inv.docs[1].id = id /\ inv.docs[1].status = "pending"
           /\ parked.inv.docs # <<>> /\ parked.inv.docs[1].id = id
           /\ parked.inv.docs[1].status = "pending"
           /\ "gen" \in inv.calls /\ "gen" \in parked.inv.calls
           /\ "commit" \in Ev(id) /\ "commit" \in ParkedEv(id)
           /\ inv.body[1].result # parked.inv.body[1].result
           /\ ledger[id].status = "processed"
           /\ ledger[id].ai_result \in {inv.body[1].result, parked.inv.body[1].result}

---------------------------------------------------------------------------
(* The rule loader alone (SpecRules): fetchGithubRules step by step *)

\* the loader of the pipeline and the loader of /api/rag-train
Loaders == {"pipeline_rules", "train_rules"}

Loaded == [readingGuide |-> "reading_guide.json", logicGuideline |-> "guideline.json"]

\* return { readingGuide: {}, logicGuideline: {} }
LoadFailedTrain == [readingGuide |-> "{}", logicGuideline |-> "{}"]

\* the value returned by the catch block of the loader
Sentinel(loader) == IF loader = "train_rules" THEN LoadFailedTrain ELSE LoadFailed

RulesThrown(i, msg) == [i EXCEPT !.pc = "r_catch", !.err = msg]

\* await Promise.all([fetch(reading_guide.json), fetch(guideline.json)])
RulesFetch ==
    /\ inv.pc = "r_fetch"
    /\ inv' = IF "throws" \in {inv.payload.reading, inv.payload.logic}
              THEN RulesThrown(inv, "fetch rejected")
              ELSE [inv EXCEPT !.pc = "r_check"]
    /\ UNCHANGED <<ledger, store, nops, lastEdit, ex>>
    /\ UNCHANGED parked

\* if (!readingRes.ok || !logicRes.ok) throw new Error("GitHub fetch failed")
RulesCheck ==
    /\ inv.pc = "r_check"
    /\ inv' = IF "not_ok" \in {inv.payload.reading, inv.payload.logic}
              THEN RulesThrown(inv, "GitHub fetch failed")
              ELSE [inv EXCEPT !.pc = "r_reading"]
    /\ UNCHANGED <<ledger, store, nops, lastEdit, ex>>
    /\ UNCHANGED parked

\* await readingRes.json()
RulesReading ==
    /\ inv.pc = "r_reading"
    /\ inv' = IF inv.payload.reading = "bad_json"
              THEN RulesThrown(inv, "bad json")
              ELSE [inv EXCEPT !.pc = "r_logic",
                               !.rules = [readingGuide |-> Loaded.readingGuide]]
    /\ UNCHANGED <<ledger, store, nops, lastEdit, ex>>
    /\ UNCHANGED parked

\* await logicRes.json(); return { readingGuide, logicGuideline }
RulesLogic ==
    /\ inv.pc = "r_logic"
    /\ inv' = IF inv.payload.logic = "bad_json"
              THEN RulesThrown(inv, "bad json")
              ELSE [inv EXCEPT !.pc = "done",
                               !.rules = [readingGuide |-> inv.rules.readingGuide,
                                          logicGuideline |-> Loaded.logicGuideline]]
    /\ UNCHANGED <<ledger, store, nops, lastEdit, ex>>
    /\ UNCHANGED parked

\* faulty variant: the catch keeps the document that was already parsed
RulesCatchPartial ==
    /\ inv.pc = "r_catch"
    /\ inv' = [inv EXCEPT !.pc = "done",
                          !.rules = [readingGuide |->
                                        FieldOr(inv.rules, "readingGuide",
                                                Sentinel(inv.op).readingGuide),
                                     logicGuideline |-> Sentinel(inv.op).logicGuideline]]
    /\ UNCHANGED <<ledger, store, nops, lastEdit, ex>>
    /\ UNCHANGED parked

\* catch (error) { console.error(...); return the sentinel for both fields }
RulesCatch ==
    /\ inv.pc = "r_catch"
    /\ inv' = [inv EXCEPT !.pc = "done", !.rules = Sentinel(inv.op)]
    /\ UNCHANGED <<ledger, store, nops, lastEdit, ex>>
    /\ UNCHANGED parked

\* one call of a loader, for every pair of outcomes of the two fetches
InitRules ==
    /\ ledger = [id \in ReqIds |->
                    IF id \in Ids THEN Row("pending", NullResult, NullText, FALSE) ELSE NoRow]
    /\ store = [id \in VecIds |-> NoVec]
    /\ nops = MaxOps
    /\ \E loader \in Loaders, reading \in FetchOutcomes, logic \in FetchOutcomes :
           inv = [InvIdle EXCEPT !.op = loader, !.pc = "r_fetch",
                                 !.payload = [reading |-> reading, logic |-> logic]]
    /\ lastEdit = [id \in ReqIds |-> NoPayload]
    /\ ex = ExIdle
    /\ parked = NoParked

NextRules == RulesFetch \/ RulesCheck \/ RulesReading \/ RulesLogic \/ RulesCatch

SpecRules == InitRules /\ [][NextRules]_vars

\* C30: the rule loader never raises: every call ends by returning a value.
\* When either fetch fails or either document does not parse, the value is
\* the sentinel for both fields; only when both fetches and both parses
\* succeed is it the two loaded documents; it is never one loaded document
\* next to one sentinel.
C30_LoaderAllOrNothing ==
    inv.op \in Loaders =>
        /\ inv.pc \in {"r_fetch", "r_check", "r_reading", "r_logic", "r_catch", "done"}
        /\ inv.pc = "r_catch" => inv.err # NullText
        /\ inv.pc = "done" =>
               /\ inv.rules = IF inv.payload.reading = "ok" /\ inv.payload.logic = "ok"
                              THEN Loaded ELSE Sentinel(inv.op)
               /\ inv.rules.readingGuide = Sentinel(inv.op).readingGuide
                      <=> inv.rules.logicGuideline = Sentinel(inv.op).logicGuideline
               /\ inv.op = "pipeline_rules" =>
                      inv.rules = FetchGithubRules(inv.payload.reading, inv.payload.logic)

\* the first document was fetched and parsed, the second did not parse, and
\* the pipeline's loader returned the sentinel for both
C30_Witness ==
    /\ inv.op = "pipeline_rules" /\ inv.pc = "done"
    /\ inv.payload.reading = "ok" /\ inv.payload.logic = "bad_json"
    /\ inv.err = "bad json"
    /\ inv.rules = LoadFailed

---------------------------------------------------------------------------
(* One pipeline invocation in which every step is eventually taken (SpecLive) *)

\* a ledger of pending, failed and already analysed entries; one invocation
InitLive ==
    /\ ledger \in {l \in [ReqIds -> {Row("pending", NullResult, NullText, FALSE),
                                      Row("error", [error |-> "429"], NullText, FALSE),
                                      Row("processed", StoredResult, NullText, FALSE), NoRow}] :
                       \A id \in ReqIds : (l[id] = NoRow) <=> (id = MissingId)}
    /\ store = [id \in VecIds |-> NoVec]
    /\ nops = MaxOps - 1
    /\ inv = InvIdle
    /\ lastEdit = [id \in ReqIds |-> NoPayload]
    /\ ex = ExIdle
    /\ parked = NoParked

NextLive ==
    \/ StartPipeline
    \/ PipelineSelect \/ PipelineRules \/ PipelineLoop
    \/ PipelineDownload \/ PipelinePhase1 \/ PipelineEmbed \/ PipelineQuery
    \/ PipelinePhase3 \/ PipelineCommit \/ PipelineCatch
    \/ ExCall \/ ExWait

\* every external call eventually returns or fails, every wait ends
SpecLive == InitLive /\ [][NextLive]_vars /\ WF_vars(NextLive)

ExRunning == ex.pc \in {"call", "wait"}

\* C31: a retry is made only with retries left and leaves one fewer, so a
\* running executor call eventually returns or throws; a pipeline invocation
\* eventually answers its caller, and once it has answered nothing of the
\* invocation changes any more (one answer, never a second).
C31_Termination ==
    /\ [][(ex.pc = "wait" /\ ex'.pc = "call") =>
             (ex.retries > 0 /\ ex'.retries = ex.retries - 1)]_vars
    /\ [][(ex.pc = "call" /\ ex'.pc = "wait") => ex.retries > 0]_vars
    /\ ExRunning ~> ExDone
    /\ (inv.op = "pipeline") ~> Done("pipeline")
    /\ [][Done("pipeline") => (inv' = inv /\ ledger' = ledger /\ store' = store)]_vars

\* the invocation has answered after a generation call used up its retries
C31_Witness ==
    /\ Done("pipeline") /\ inv.code = 200
    /\ \E n \in DOMAIN inv.results :
           /\ inv.results[n].status = "error"
           /\ inv.results[n].result.error = "429"
    /\ "gen" \in inv.calls

---------------------------------------------------------------------------
(* Repeated automatic invocations over a queue whose oldest entry keeps
   failing (SpecQueue) *)

Oldest == CHOOSE i \in Ids : \A j \in Ids : CreatedAt(i) <= CreatedAt(j)

\* the scheduler calls the pipeline again, without an id, as often as it likes
StartAuto ==
    /\ Quiescent
    /\ inv' = Begin("pipeline", "p_select", NoDocId, NullText, NoPayload)
    /\ UNCHANGED <<ledger, store, nops, lastEdit, ex>>
    /\ UNCHANGED parked

\* the case the progress claim is about: the selection query works, every
\* attempt on the oldest entry fails before its commit (missing file, failed
\* generation call), and every other entry meets no failure at all
Favourable ==
    /\ inv'.err # SelectFailedMsg
    /\ (InEntry /\ CurDoc.id = Oldest) => inv'.pc # "p_commit"
    /\ (InEntry /\ CurDoc.id # Oldest) =>
           /\ inv'.pc # "p_catch"
           /\ ex'.pc # "thrown"
           /\ inv.pc = "p_download" => inv'.pc = "p_phase1"

QueueSelect == PipelineSelect /\ Favourable

QueueRules == PipelineRules /\ Favourable

QueueLoop == PipelineLoop /\ Favourable

QueueDownload == PipelineDownload /\ Favourable

QueuePhase1 == PipelinePhase1 /\ Favourable

QueueEmbed == PipelineEmbed /\ Favourable

QueueQuery == PipelineQuery /\ Favourable

QueuePhase3 == PipelinePhase3 /\ Favourable

QueueCommit == PipelineCommit /\ Favourable

QueueCatch == PipelineCatch /\ Favourable

QueueCall == ExCall /\ Favourable

QueueWait == ExWait /\ Favourable

\* queues whose oldest entry is still waiting or was confirmed long ago
InitQueue ==
    /\ ledger \in {l \in [ReqIds -> {Row("pending", NullResult, NullText, FALSE),
                                      Row("completed", StoredResult, NullText, TRUE), NoRow}] :
                       /\ \A id \in ReqIds : (l[id] = NoRow) <=> (id = MissingId)
                       /\ \A id \in Ids \ {Oldest} : l[id].status = "pending"}
    /\ store = [id \in VecIds |-> NoVec]
    /\ nops = MaxOps
    /\ inv = InvIdle
    /\ lastEdit = [id \in ReqIds |-> NoPayload]
    /\ ex = ExIdle
    /\ parked = NoParked

NextQueue ==
    \/ StartAuto
    \/ QueueSelect \/ QueueRules \/ QueueLoop
    \/ QueueDownload \/ QueuePhase1 \/ QueueEmbed \/ QueueQuery
    \/ QueuePhase3 \/ QueueCommit \/ QueueCatch
    \/ QueueCall \/ QueueWait

SpecQueue == InitQueue /\ [][NextQueue]_vars /\ WF_vars(NextQueue)

\* C32: under repeated automatic invocations every pending entry whose file
\* can be downloaded and whose generation calls succeed is eventually
\* committed as processed, also when an older entry fails on every attempt.
C32_QueueProgress ==
    \A id \in Ids \ {Oldest} :
        (ledger[id].status = "pending") ~> (ledger[id].status = "processed")

---------------------------------------------------------------------------
(* Two manual-training saves that may overlap (SpecTrain) *)

\* a second save arrives while the first one is waiting at an await
StartConcurrentTrain ==
    /\ inv.op = "train" /\ ~Quiescent
    /\ parked = NoParked
    /\ nops < MaxOps
    /\ nops' = nops + 1
    /\ parked' = [inv |-> inv, ex |-> ex]
    /\ \E pl \in Payloads : inv' = Begin("train", "t_embed", NoDocId, NullText, pl)
    /\ ex' = ExIdle
    /\ UNCHANGED <<ledger, store, lastEdit>>

\* a store that may already hold the vectors of confirmed entries
InitTrain ==
    /\ ledger = [id \in ReqIds |->
                    IF id \in Ids THEN Row("processed", StoredResult, NullText, FALSE) ELSE NoRow]
    /\ \E confirmed \in SUBSET Ids :
           store = [id \in VecIds |->
                       IF id \in confirmed
                       THEN ConfirmMetadata(id, ledger[id], NullText)
                       ELSE NoVec]
    /\ nops = MaxOps - 2
    /\ inv = InvIdle
    /\ lastEdit = [id \in ReqIds |-> NoPayload]
    /\ ex = ExIdle
    /\ parked = NoParked

NextTrain == StartTrain \/ StartConcurrentTrain \/ Switch \/ TrainEmbed \/ TrainUpsert

SpecTrain == InitTrain /\ [][NextTrain]_vars

\* C38: a save never reads or writes the ledger, and each successful save
\* creates a vector under an id that held none before, leaving every other
\* vector as it was: after k successful saves the store holds k more vectors.
C38_SaveCreatesFreshVector ==
    /\ [](inv.op = "train" => inv.calls \cap {"ledger_read", "ledger_write"} = {})
    /\ [][inv.op = "train" => ledger' = ledger]_vars
    /\ [][(inv.op = "train" /\ inv.pc = "t_upsert" /\ inv'.pc = "done" /\ inv'.code = 200) =>
             \E t \in TrainIds :
                 /\ ~HasVec(t) /\ store'[t] # NoVec
                 /\ \A j \in VecIds \ {t} : store'[j] = store[j]]_vars

---------------------------------------------------------------------------
(* The retrieval alone (SpecSearch): searchPinecone of the pipeline and the
   two versions of fetchPastExamples of /api/rag-train *)

MaxStored == 4

\* index.query({ vector, topK: 3, includeMetadata: true })
TopK == 3

Searches == {"searchPinecone", "fetchPastExamples", "fetchPastExamplesFirst"}

\* a match without metadata
NoMeta == [nometa |-> TRUE]

\* metadata as the handlers write it, and records that lack fields
Metas ==
    {[docType |-> "typeA", fullContent |-> "content", userFeedback |-> "fbA"],
     [fullContent |-> "content", userFeedback |-> "fbA"],
     [docType |-> "typeA", fullContent |-> "content"],
     [docType |-> "typeA"],
     NoMeta}

\* the stored vectors in the order of their similarity to the query
Rankings == UNION {[1..n -> Metas] : n \in 0..MaxStored}

\* a || b || c over fields that may be missing
FirstOf(meta, f, g, dflt) ==
    IF f \in DOMAIN meta THEN meta[f]
    ELSE IF g \in DOMAIN meta THEN meta[g]
    ELSE dflt

\* const meta = match.metadata || {}
MetaOrEmpty(m) == IF m = NoMeta THEN [empty |-> TRUE] ELSE m

\* `[사례 i] (유형: ${meta.docType || 'N/A'}) 내용: ${meta.fullContent || meta.userFeedback || '내용 없음'}`
RenderPipeline(m) ==
    [docType |-> FieldOr(MetaOrEmpty(m), "docType", "N/A"),
     content |-> FirstOf(MetaOrEmpty(m), "fullContent", "userFeedback", "no content")]

\* `- 과거 유사 사례 (${meta.docType || '문서유형 미상'}): ${meta.userFeedback || meta.fullContent || "내용 없음"}`
RenderTrain(m) ==
    [docType |-> FieldOr(MetaOrEmpty(m), "docType", "unknown type"),
     content |-> FirstOf(MetaOrEmpty(m), "userFeedback", "fullContent", "no content")]

\* `- 과거 유사 사례 (${match.metadata.docType}): ${match.metadata.userFeedback || match.metadata.fullContent}`
RenderTrainFirst(m) ==
    [docType |-> FieldOr(m, "docType", "undefined"),
     content |-> FirstOf(m, "userFeedback", "fullContent", "undefined")]

Render(search, m) ==
    CASE search = "searchPinecone" -> RenderPipeline(m)
      [] search = "fetchPastExamples" -> RenderTrain(m)
      [] search = "fetchPastExamplesFirst" -> RenderTrainFirst(m)

\* the fixed answer for a query without matches
NoMatchMsg(search) ==
    CASE search = "searchPinecone" -> NoSimilarMsg
      [] search = "fetchPastExamples" -> "no related cases"
      [] search = "fetchPastExamplesFirst" -> "no similar case"

\* the answer of the catch block around the embedding and, in the first
\* version and in searchPinecone, around the whole function
SearchUnavailableMsg(search) ==
    IF search = "searchPinecone" THEN SearchFailedMsg ELSE "search unavailable"

\* the answer of the catch block around index.query
QueryFailedMsg(search) ==
    IF search = "fetchPastExamples" THEN "query failed" ELSE SearchUnavailableMsg(search)

\* embedModel.embedContent(queryText)
SearchEmbed ==
    /\ inv.pc = "s_embed"
    /\ \/ inv' = [Called(inv, "embed") EXCEPT !.pc = "s_query"]
       \/ inv' = [Respond(Called(inv, "embed"), 0, [text |-> SearchUnavailableMsg(inv.op)])
                     EXCEPT !.err = "embed failed"]
    /\ UNCHANGED <<ledger, store, nops, lastEdit, ex>>
    /\ UNCHANGED parked

\* index.query(...): at most topK matches, best first
SearchQuery ==
    /\ inv.pc = "s_query"
    /\ \/ inv' = [Called(inv, "vec") EXCEPT !.pc = "s_render",
                                           !.docs = Limit(inv.payload.stored, TopK)]
       \/ inv' = [Respond(Called(inv, "vec"), 0, [text |-> QueryFailedMsg(inv.op)])
                     EXCEPT !.err = "query failed"]
    /\ UNCHANGED <<ledger, store, nops, lastEdit, ex>>
    /\ UNCHANGED parked

\* reading a field of a missing metadata raises, in the first version only
RenderRaises(search, matches) ==
    /\ search = "fetchPastExamplesFirst"
    /\ \E n \in DOMAIN matches : matches[n] = NoMeta

\* no matches: the fixed answer; otherwise matches.map(render).join
SearchRender ==
    /\ inv.pc = "s_render"
    /\ inv' = IF inv.docs = <<>>
              THEN Respond(inv, 0, [text |-> NoMatchMsg(inv.op)])
              ELSE IF RenderRaises(inv.op, inv.docs)
              THEN [Respond(inv, 0, [text |-> SearchUnavailableMsg(inv.op)]) EXCEPT !.err = "type error"]
              ELSE Respond(inv, 0, [cases |-> [n \in DOMAIN inv.docs |-> Render(inv.op, inv.docs[n])]])
    /\ UNCHANGED <<ledger, store, nops, lastEdit, ex>>
    /\ UNCHANGED parked

\* one call of a retrieval function, for every ranking of stored vectors
InitSearch ==
    /\ ledger = [id \in ReqIds |->
                    IF id \in Ids THEN Row("pending", NullResult, NullText, FALSE) ELSE NoRow]
    /\ store = [id \in VecIds |-> NoVec]
    /\ nops = MaxOps
    /\ \E search \in Searches, stored \in Rankings :
           inv = [InvIdle EXCEPT !.op = search, !.pc = "s_embed",
                                 !.payload = [stored |-> stored]]
    /\ lastEdit = [id \in ReqIds |-> NoPayload]
    /\ ex = ExIdle
    /\ parked = NoParked

NextSearch == SearchEmbed \/ SearchQuery \/ SearchRender

SpecSearch == InitSearch /\ [][NextSearch]_vars

\* what the rendering of a match has to be: its fields, with the function's
\* placeholder for a missing document type and for missing content
Summarises(search, summary, m) ==
    LET meta == MetaOrEmpty(m)
        present == {f \in {"fullContent", "userFeedback"} : f \in DOMAIN meta}
    IN  /\ summary.docType = FieldOr(meta, "docType", Render(search, [empty |-> TRUE]).docType)
        /\ IF present = {}
           THEN summary.content = Render(search, [empty |-> TRUE]).content
           ELSE \E f \in present : summary.content = meta[f]

\* C40: the retrieval answers with its fixed "no similar cases" text exactly
\* when the query succeeded with zero matches; with one or more matches it
\* answers with one summary per match, in rank order and at most topK of
\* them, a placeholder standing for every missing metadata field.
C40_FindSimilar ==
    (inv.op \in Searches /\ inv.pc = "done") =>
        LET queried == "vec" \in inv.calls /\ inv.err # "query failed"
        IN  /\ inv.body = [text |-> NoMatchMsg(inv.op)]
                   <=> (queried /\ inv.payload.stored = <<>>)
            /\ (queried /\ inv.payload.stored # <<>>) =>
                   /\ DOMAIN inv.body = {"cases"}
                   /\ Len(inv.body.cases) <= TopK
                   /\ Len(inv.body.cases) = Len(Limit(inv.payload.stored, TopK))
                   /\ \A n \in 1..Len(inv.body.cases) :
                          Summarises(inv.op, inv.body.cases[n], inv.payload.stored[n])

====
